---- MODULE Spec2Model ----
(***************************************************************************)
(* Koala Artillery: the destructible terrain (Terrain), the projectile     *)
(* state machine (Projectile), the projectile loop of the game engine      *)
(* (Game.updateProjectiles), the koalas' physics (Physics) and the game    *)
(* loop (Game.gameLoop, Game.update, Game.reset), as state machines.       *)
(*                                                                         *)
(* Numbers.  Coordinates the program floors before use are kept as exact   *)
(* rationals <<n, d>> (d > 0); <<0, 0>> is NaN, the value JavaScript gives *)
(* 0/0.  Positions that the program keeps in floats are kept as integers   *)
(* in units of 1/UnitsPerPixel px, velocities in px/s and time in units of *)
(* 1/TimeUnitsPerSecond s, so x += vx * dt is exact; divisions round down. *)
(***************************************************************************)
EXTENDS Integers, Sequences, FiniteSets, TLC

VARIABLES
    width,        \* Terrain.width
    height,       \* Terrain.height
    canvas,       \* Terrain.canvas: the visual buffer (alpha channel)
    imageData,    \* Terrain.imageData: the collision bitmap, NoImageData before the first updateCollisionMask
    lastCrater,   \* history: the last createCrater call and the bitmap it found
    proj,         \* the Projectile object driven on its own
    lastReturn,   \* history: what the last proj.update() call returned
    calls,        \* history: update() calls made since proj.isTriggered became true
    contacts,     \* history: onTerrainHit() calls made on proj
    sinceContact, \* history: the dt of the last update() and, for a timer projectile, the sum of dt since the first onTerrainHit()
    projectiles,  \* Game.projectiles
    koalas,       \* the koalas of Game.teams, in team order
    phase,        \* Game.phase
    wind,         \* Game.wind * 100, the wind force
    frameDt,      \* the dt of this run's frames
    impactLog,    \* history: per projectile id, what the loop has done with it
    physicsFile,  \* which of the two Physics classes of the sources drives the koalas
    entity,       \* the koala Physics.updateEntity is driven on, on its own
    landing,      \* history: the last touchdown of entity, and what it was charged
    lastTime,     \* Game.lastTime, in time units
    clock,        \* performance.now(), in time units
    followingProjectile, \* Game.followingProjectile: the id of the projectile the camera follows, 0 for null
    tickLog,      \* history: the dt the last Game.update() handed on, and what its physics read
    twin,         \* a second run of the game, fed the same firings and frames as the first
    scan,         \* where a call of resolveTerrainCollision(entity) stands: the scan it is in and its cursor
    turn,         \* the turn of the game: Game.currentTeamIndex, currentKoalaIndex, the timers, the pending timeouts, the charge
    grid          \* the SpatialGrid: its cells and its entityCells map, and the entities it is given

terrainVars == <<width, height, canvas, imageData, lastCrater>>
harnessVars == <<proj, lastReturn, calls, contacts, sinceContact>>
gameVars == <<projectiles, koalas, phase, wind, frameDt, impactLog>>
physicsVars == <<entity, landing>>
twinVars == <<twin>>
scanVars == <<scan>>
turnVars == <<turn>>
gridVars == <<grid>>
loopVars == <<lastTime, clock, tickLog>>
extraVars == <<physicsFile, physicsVars, loopVars, twinVars, scanVars, turnVars, gridVars>>
vars == <<terrainVars, harnessVars, gameVars, followingProjectile, extraVars>>

\* this.imageData before the first updateCollisionMask(): undefined
NoImageData == [map |-> "undefined", w |-> 0, h |-> 0, craters |-> <<>>]

\* no createCrater call yet on the current map
NoCrater == [cx |-> 0, cy |-> 0, r |-> 0, before |-> NoImageData]

(***************************************************************************)
(* Bounds of the model.                                                    *)
(***************************************************************************)
\* Size of the Terrain built for the terrain-only specification.
TestWidth == 12
TestHeight == 18
\* Craters carved into one map.
MaxCraters == 2

(***************************************************************************)
(* JavaScript numbers                                                      *)
(***************************************************************************)
NaN == <<0, 0>>

Num(n) == <<n, 1>>

IsNaN(v) == v[2] = 0

\* Math.floor
MathFloor(v) == IF v[2] = 0 THEN NaN ELSE <<v[1] \div v[2], 1>>

\* a < b, a >= b for a floored number and an integer: false for NaN
Lt(a, k) == a[2] # 0 /\ a[1] < k
Ge(a, k) == a[2] # 0 /\ a[1] >= k

Min(a, b) == IF a < b THEN a ELSE b
Max(a, b) == IF a > b THEN a ELSE b
Abs(a) == IF a < 0 THEN -a ELSE a

RECURSIVE SqrtIter(_, _, _)
SqrtIter(n, lo, hi) ==
    IF lo >= hi THEN lo
    ELSE LET mid == (lo + hi + 1) \div 2
         IN  IF mid * mid <= n THEN SqrtIter(n, mid, hi) ELSE SqrtIter(n, lo, mid - 1)

\* floor(sqrt(n))
ISqrt(n) == SqrtIter(n, 0, Min(n, 46340))

\* Math.ceil(Math.hypot(dx, dy) / k)
CeilHypotDiv(dx, dy, k) ==
    LET d2 == dx * dx + dy * dy
        s == ISqrt(d2)
        c == IF s * s = d2 THEN s ELSE s + 1
    IN  (c + k - 1) \div k

RECURSIVE SumRange(_, _, _)
SumRange(f, lo, hi) == IF lo > hi THEN 0 ELSE f[lo] + SumRange(f, lo + 1, hi)

(***************************************************************************)
(* The visual buffer.  The canvas is kept as the drawing that produced it: *)
(* the map drawn by generate() or loadCustomMap() and the craters since    *)
(* composited onto it; VisualAlpha gives the alpha of a pixel, rounded     *)
(* after every compositing step as the 8-bit canvas rounds it.             *)
(***************************************************************************)

\* Inside the ellipse ctx.ellipse(0, 0, w/2, h/2) translated to (cx2/2, cy2/2),
\* with full axes a by b.
InEllipse(x, y, cx2, cy2, a, b) ==
    LET ex == 2 * x - cx2
        ey == 2 * y - cy2
    IN  /\ a > 0 /\ b > 0
        /\ Abs(ex) <= a /\ Abs(ey) <= b
        /\ (ex * ex) * (b * b) + (ey * ey) * (a * a) <= (a * a) * (b * b)

\* generateFixedMap: the filled shapes, in per-mille of the canvas size.
FixedMapSolid(w, h, x, y) ==
    LET u == (1000 * x) \div w
        v == (1000 * y) \div h
        \* 1. bottom ground layer: floor at 0.75h, dipping to 0.82h between 0.35w and 0.65w
        t100 == IF u < 250 THEN 0
                ELSE IF u < 350 THEN u - 250
                ELSE IF u <= 650 THEN 100
                ELSE IF u < 750 THEN 750 - u
                ELSE 0
        top == 750 + (70 * t100 * t100) \div 10000
        ground == v >= top
        \* 2. floating islands (createPlatform)
        islands == \/ InEllipse(x, y, w \div 5, (7 * h) \div 10, (15 * w) \div 100, 60)
                   \/ InEllipse(x, y, w \div 2, h, (15 * w) \div 100, 60)
        \* barn roof and pillars
        barn == \/ (u >= 50 /\ u < 250 /\ y >= (3 * h) \div 4 /\ y < (3 * h) \div 4 + 20)
                \/ (x >= (6 * w) \div 100 /\ x < (6 * w) \div 100 + 10 /\ v >= 750 /\ v < 850)
                \/ (x >= (24 * w) \div 100 /\ x < (24 * w) \div 100 + 10 /\ v >= 750 /\ v < 850)
        \* 3. central pillar and the platform on top of it
        pillar == \/ (u >= 350 /\ u < 430 /\ v >= 400 /\ v < 950)
                  \/ InEllipse(x, y, (78 * w) \div 100, (8 * h) \div 10, (12 * w) \div 100, 30)
        \* 4. upper central block: (0.55w,0.45h) (0.7w,0.45h) (0.65w,0.65h) (0.55w,0.6h)
        block == /\ u >= 550 /\ v >= 450
                 /\ (u - 700) * 200 + (v - 450) * 50 <= 0
                 /\ (u - 650) * 50 - (v - 650) * 100 >= 0
        \* 5. right side mountain, in steps
        mountain == \/ (u >= 850 /\ v >= 600 /\ v <= 750)
                    \/ (u >= 900 /\ v >= 450)
                    \/ (u >= 950 /\ v >= 250)
                    \/ InEllipse(x, y, (16 * w) \div 10, (13 * h) \div 10, w \div 10, 30)
    IN  ground \/ islands \/ barn \/ pillar \/ block \/ mountain

\* The maps loadCustomMap() may be handed: images with any alpha.
CustomMaps == {"full", "soft", "layers", "shelf"}

Maps == {"blank", "fixed"} \cup CustomMaps

\* Custom maps of the size of the world with a wall that stands on the ground:
\* the wall is WallThickness(map) columns thick from column WallLeft on.
WallMaps == {"wall4", "wall6"}
WallLeft == 440
WallThickness(map) == IF map = "wall4" THEN 4 ELSE 6

\* Alpha of pixel (x, y) of a freshly drawn map on a w by h canvas.
MapAlpha(map, w, h, x, y) ==
    CASE map = "blank" -> 0
      [] map = "fixed" -> IF FixedMapSolid(w, h, x, y) THEN 255 ELSE 0
      [] map = "full" -> 255
      [] map \in WallMaps ->
            IF (x >= WallLeft /\ x < WallLeft + WallThickness(map)) \/ y >= (3 * h) \div 4
            THEN 255 ELSE 0
      \* anti-aliased edges: alphas on both sides of the 50% threshold
      [] map = "soft" ->
            IF y < h \div 2 THEN 0
            ELSE IF y = h \div 2 THEN (IF x % 4 = 0 THEN 127 ELSE IF x % 4 = 1 THEN 128
                                        ELSE IF x % 4 = 2 THEN 129 ELSE 64)
            ELSE 255
      \* thin layers near the top of the image: every other row in one column,
      \* rows 0, 2 and 6 in the next, and only the last four rows in the third
      [] map = "layers" ->
            IF x % 3 = 0 THEN (IF y % 2 = 1 THEN 255 ELSE 0)
            ELSE IF x % 3 = 1 THEN (IF y \in {0, 2, 6} THEN 255 ELSE 0)
            ELSE (IF y >= h - 4 THEN 255 ELSE 0)
      \* ground in the last six rows only, and a hanging shelf at the left
      [] map = "shelf" ->
            IF y >= h - 6 THEN 255
            ELSE IF x < w \div 3 /\ y >= 4 /\ y < 6 THEN 255
            ELSE 0

\* One crater composited onto alpha a at pixel (x, y): destination-out of the
\* radial gradient (opaque up to 0.7r, fading to 0 at r), clipped to the arc.
\* The burn-mark stroke is drawn source-atop and leaves alpha as it is.
CraterAlpha(a, x, y, c) ==
    LET d2 == (x - c.cx) * (x - c.cx) + (y - c.cy) * (y - c.cy)
        r == c.r
    IN  IF d2 > r * r THEN a
        ELSE IF 100 * d2 <= 49 * r * r THEN 0
        ELSE (a * (ISqrt(10000 * d2) - 70 * r)) \div (30 * r)

RECURSIVE CratersAlpha(_, _, _, _, _)
CratersAlpha(a, craters, i, x, y) ==
    IF i > Len(craters) THEN a
    ELSE CratersAlpha(CraterAlpha(a, x, y, craters[i]), craters, i + 1, x, y)

\* Alpha of in-bounds pixel (x, y) of canvas cv.
VisualAlpha(cv, x, y) ==
    CratersAlpha(MapAlpha(cv.map, cv.w, cv.h, x, y), cv.craters, 1, x, y)

BlankCanvas(w, h) == [map |-> "blank", w |-> w, h |-> h, craters |-> <<>>]

(***************************************************************************)
(* Terrain                                                                 *)
(***************************************************************************)

\* A bitmap that keeps the canvas's alpha as drawn, without the threshold.
MaskAlphaUnthresholded(img, x, y) == VisualAlpha(img, x, y)

\* updateCollisionMask: copy the canvas and force every alpha to 0 or 255.
\* The bitmap is the copied canvas; MaskAlpha is its thresholded alpha.
MaskAlpha(img, x, y) == IF VisualAlpha(img, x, y) < 128 THEN 0 ELSE 255

updateCollisionMask(cv) == cv

\* A checkCollision that answers false for every point outside the canvas.
CheckCollisionNoFloor(img, w, h, x, y) ==
    LET fx == MathFloor(x)
        fy == MathFloor(y)
    IN  IF Lt(fx, 0) \/ Ge(fx, w) \/ Lt(fy, 0) \/ Ge(fy, h) \/ IsNaN(fx) \/ IsNaN(fy)
        THEN FALSE
        ELSE MaskAlpha(img, fx[1], fy[1]) > 128

\* checkCollision(x, y) on bitmap img.
CheckCollisionIn(img, w, h, x, y) ==
    LET fx == MathFloor(x)
        fy == MathFloor(y)
    IN  IF Lt(fx, 0) \/ Ge(fx, w) \/ Lt(fy, 0) \/ Ge(fy, h)
        THEN Ge(fy, h)
        ELSE IF IsNaN(fx) \/ IsNaN(fy)
        THEN FALSE     \* data[NaN] is undefined, and undefined > 128 is false
        ELSE MaskAlpha(img, fx[1], fy[1]) > 128

\* Whether checkCollision(x, y) throws: it reads this.imageData.data
\* unless the bounds test has already returned.
CheckCollisionThrows(img, w, h, x, y) ==
    LET fx == MathFloor(x)
        fy == MathFloor(y)
    IN  /\ ~(Lt(fx, 0) \/ Ge(fx, w) \/ Lt(fy, 0) \/ Ge(fy, h))
        /\ img = NoImageData

checkCollision(x, y) == CheckCollisionIn(imageData, width, height, x, y)

\* A scan that counts every air-to-solid transition, whatever the air above it.
RECURSIVE ScanColumnEveryTransition(_, _, _, _, _, _)
ScanColumnEveryTransition(cv, x, y, previousWasAir, airStreak, surfaces) ==
    IF y >= cv.h - 10 THEN surfaces
    ELSE LET isSolid == VisualAlpha(cv, x, y) >= 128
         IN  ScanColumnEveryTransition(cv, x, y + 1, ~isSolid, 0,
                 IF previousWasAir /\ isSolid THEN Append(surfaces, y) ELSE surfaces)

\* getVisualGroundY's scan of column x of the visual canvas, from row y down to
\* row height - 11; surfaces holds the transitions found so far.
RECURSIVE ScanColumn(_, _, _, _, _, _)
ScanColumn(cv, x, y, previousWasAir, airStreak, surfaces) ==
    IF y >= cv.h - 10 THEN surfaces
    ELSE LET isSolid == VisualAlpha(cv, x, y) >= 128
         IN  IF previousWasAir /\ isSolid
             THEN ScanColumn(cv, x, y + 1, FALSE, 0,
                             IF airStreak >= 3 THEN Append(surfaces, y) ELSE surfaces)
             ELSE IF ~isSolid
             THEN ScanColumn(cv, x, y + 1, TRUE, airStreak + 1, surfaces)
             ELSE ScanColumn(cv, x, y + 1, FALSE, airStreak, surfaces)

\* getVisualGroundY(x): the rows of the air-to-solid transitions of column floor(x).
GetVisualGroundYIn(cv, x) ==
    LET fx == MathFloor(x)
    IN  IF Lt(fx, 0) \/ Ge(fx, cv.w) THEN <<>>
        ELSE ScanColumn(cv, fx[1], 0, TRUE, 10, <<>>)

getVisualGroundY(x) == GetVisualGroundYIn(canvas, x)

\* surfaces.find(s => s >= y): <<the first element >= y>>, << >> for undefined
RECURSIVE FindAtLeast(_, _, _)
FindAtLeast(surfaces, i, y) ==
    IF i > Len(surfaces) THEN <<>>
    ELSE IF surfaces[i] >= y THEN <<surfaces[i]>>
    ELSE FindAtLeast(surfaces, i + 1, y)

\* getGroundY(x, startY = 0)
getGroundY(x, startY) ==
    LET surfaces == getVisualGroundY(x)
    IN  IF Len(surfaces) > 0
        THEN LET below == FindAtLeast(surfaces, 1, startY)
             IN  IF below # <<>> THEN below[1] ELSE surfaces[1]
        ELSE height

\* getGroundBelow(x, y)
getGroundBelow(x, y) ==
    LET surfaces == getVisualGroundY(x)
    IN  IF Len(surfaces) = 0 THEN height
        ELSE LET below == FindAtLeast(surfaces, 1, y)
             IN  IF below # <<>> THEN below[1] ELSE height

\* The sum of getSurfaceNormal(x, y): -offset over the solid samples of the
\* 11 x 11 neighbourhood.  x and y are integers.
NormalSum(img, w, h, x, y) ==
    LET radius == 5
        solid == {o \in (-radius..radius) \X (-radius..radius) :
                     CheckCollisionIn(img, w, h, Num(x + o[1]), Num(y + o[2]))}
        col == [ox \in -radius..radius |->
                   Cardinality({oy \in -radius..radius : <<ox, oy>> \in solid})]
        row == [oy \in -radius..radius |->
                   Cardinality({ox \in -radius..radius : <<ox, oy>> \in solid})]
        nxs == [ox \in -radius..radius |-> -ox * col[ox]]
        nys == [oy \in -radius..radius |-> -oy * row[oy]]
    IN  [nx |-> SumRange(nxs, -radius, radius), ny |-> SumRange(nys, -radius, radius)]

\* Math.hypot(nx, ny) in hundredths, rounded down; 0 exactly when nx = ny = 0.
Hypot100(nx, ny) == ISqrt(10000 * (nx * nx + ny * ny))

\* The vector (nx / len, ny / len) of the sum s of length len hundredths: each
\* component the rational <<100 * n, len>>, with the sum it came from.
Normalised(s, len) ==
    [x |-> <<100 * s.nx, len>>, y |-> <<100 * s.ny, len>>,
     nx |-> s.nx, ny |-> s.ny, len2 |-> s.nx * s.nx + s.ny * s.ny]

\* A normal that is the sum divided by len, whatever len is.
NormalOfSumUnguarded(s, len) == Normalised(s, len)

\* if (len === 0) return { x: 0, y: -1 }; return { x: nx / len, y: ny / len }
NormalOfSum(s, len) ==
    IF len = 0 THEN [x |-> Num(0), y |-> Num(-1), nx |-> 0, ny |-> -1, len2 |-> 1]
    ELSE Normalised(s, len)

NormalOf(s) == NormalOfSum(s, Hypot100(s.nx, s.ny))

\* getSurfaceNormal(x, y) on bitmap img, x and y integers.
GetSurfaceNormalIn(img, w, h, x, y) == NormalOf(NormalSum(img, w, h, x, y))

getSurfaceNormal(x, y) == GetSurfaceNormalIn(imageData, width, height, x, y)

\* lineOfSight(x1, y1, x2, y2) for integer end points: the samples are
\* x1 + dx * (i / steps); with steps = 0 the one sample is x1 + 0 * (0/0) = NaN.
LineOfSightSample(x1, y1, x2, y2, steps, i) ==
    << <<x1 * steps + (x2 - x1) * i, steps>>, <<y1 * steps + (y2 - y1) * i, steps>> >>

lineOfSight(x1, y1, x2, y2) ==
    LET steps == CeilHypotDiv(x2 - x1, y2 - y1, 2)
    IN  ~ \E i \in 0..steps :
            LET p == LineOfSightSample(x1, y1, x2, y2, steps, i)
            IN  checkCollision(p[1], p[2])

\* createCrater(cx, cy, radius, updateMask): the canvas and the bitmap it leaves.
CraterCanvas(cv, cx, cy, radius) ==
    [cv EXCEPT !.craters = Append(@, [cx |-> cx, cy |-> cy, r |-> radius])]

\* A createCrater that carves the canvas and leaves the bitmap as it was.
CraterMaskStale(cv, img, cx, cy, radius, updateMask) == img

CraterMask(cv, img, cx, cy, radius, updateMask) ==
    IF updateMask THEN updateCollisionMask(CraterCanvas(cv, cx, cy, radius)) ELSE img

(***************************************************************************)
(* Weapons and projectiles                                                 *)
(***************************************************************************)
\* null, undefined: a value the program has not set
None == 0 - 1

\* a || b for numbers: b when a is undefined or 0
OrElse(a, b) == IF a = None \/ a = 0 THEN b ELSE a

\* Time is counted in units of 1/40 s: the largest frame, 0.05 s, is two units.
TimeUnitsPerSecond == 2 * 20
Seconds(n) == n * TimeUnitsPerSecond

\* A weapon definition with no property set.
NoWeapon ==
    [id |-> "none", type |-> "none", damage |-> None, directDamage |-> None,
     explosionRadius |-> None, knockback |-> None, speed |-> None, gravity |-> None,
     affectedByWind |-> "undefined", bounces |-> FALSE, bounciness |-> None,
     usesTimer |-> FALSE, timerStartsOnThrow |-> FALSE, defaultTimer |-> None,
     fixedTimer |-> None, triggeredByProximity |-> FALSE, triggerDelay |-> None,
     dudChance |-> FALSE, explodesOnSettle |-> FALSE, settleVelocityThreshold |-> None]

\* createWeapons(): the weapons fireWeapon() turns into a projectile.
\* bounciness is in hundredths.
createWeapons ==
    [bazooka |->
        [NoWeapon EXCEPT !.id = "bazooka", !.type = "bazooka", !.damage = 50,
            !.directDamage = 0, !.explosionRadius = 50, !.knockback = 300, !.speed = 900,
            !.gravity = 1, !.affectedByWind = "true"],
     grenade |->
        [NoWeapon EXCEPT !.id = "grenade", !.type = "grenade", !.damage = 50,
            !.directDamage = 0, !.explosionRadius = 85, !.knockback = 300, !.speed = 800,
            !.gravity = 1, !.affectedByWind = "false", !.bounces = TRUE, !.bounciness = 70,
            !.usesTimer = TRUE, !.timerStartsOnThrow = TRUE, !.defaultTimer = 3],
     shotgun |->
        [NoWeapon EXCEPT !.id = "shotgun", !.type = "shotgun", !.damage = 8,
            !.directDamage = 8, !.explosionRadius = 15, !.knockback = 80, !.speed = 1200,
            !.gravity = 0, !.affectedByWind = "false"],
     dynamite |->
        [NoWeapon EXCEPT !.id = "dynamite", !.type = "dynamite", !.damage = 75,
            !.directDamage = 0, !.explosionRadius = 120, !.knockback = 400, !.speed = 0,
            !.gravity = 1, !.affectedByWind = "false", !.usesTimer = TRUE,
            !.timerStartsOnThrow = TRUE, !.fixedTimer = 5],
     rope |->
        [NoWeapon EXCEPT !.id = "rope", !.type = "rope", !.speed = 1000, !.gravity = 0],
     mine |->
        [NoWeapon EXCEPT !.id = "mine", !.type = "mine", !.damage = 50,
            !.explosionRadius = 70, !.knockback = 300, !.speed = 300,
            !.triggeredByProximity = TRUE, !.usesTimer = TRUE, !.fixedTimer = 3,
            !.triggerDelay = 3, !.dudChance = TRUE],
     holygrenade |->
        [NoWeapon EXCEPT !.id = "holygrenade", !.type = "holygrenade", !.damage = 100,
            !.directDamage = 0, !.explosionRadius = 150, !.knockback = 500, !.speed = 700,
            !.gravity = 1, !.bounces = TRUE, !.bounciness = 60, !.explodesOnSettle = TRUE,
            !.settleVelocityThreshold = 63],
     blowtorch |->
        [NoWeapon EXCEPT !.id = "blowtorch", !.type = "blowtorch", !.speed = 80]]

\* The weapons of the earlier catalogue whose timers differ: the grenades
\* count from their first terrain hit, the mine has neither timer nor duds.
createWeaponsLegacy ==
    [grenade |->
        [NoWeapon EXCEPT !.id = "grenade", !.type = "grenade", !.damage = 45,
            !.directDamage = 0, !.explosionRadius = 75, !.knockback = 250, !.speed = 800,
            !.gravity = 1, !.affectedByWind = "false", !.bounces = TRUE, !.bounciness = 70,
            !.usesTimer = TRUE, !.defaultTimer = 3],
     holygrenade |->
        [NoWeapon EXCEPT !.id = "holygrenade", !.type = "holygrenade", !.damage = 100,
            !.directDamage = 0, !.explosionRadius = 150, !.knockback = 500, !.speed = 700,
            !.gravity = 1, !.bounces = TRUE, !.bounciness = 60, !.usesTimer = TRUE,
            !.defaultTimer = 3],
     mine |->
        [NoWeapon EXCEPT !.id = "mine", !.type = "mine", !.damage = 50,
            !.explosionRadius = 70, !.knockback = 300, !.speed = 300,
            !.triggeredByProximity = TRUE]]

\* new Projectile(options); dud is the outcome of Math.random() < dudChance.
\* Times are in time units, settleRequiredTime is 0.3 s.
Projectile(options, dud) ==
    [x |-> options.x, y |-> options.y, vx |-> options.vx, vy |-> options.vy,
     type |-> options.type, weapon |-> options.weapon,
     gravityMultiplier |-> OrElse(options.gravityMultiplier, 1),
     affectedByWind |-> options.affectedByWind,
     bounces |-> options.bounces,
     bounciness |-> OrElse(options.bounciness, 50),
     bounceCount |-> 0, maxBounces |-> 3,
     timer |-> options.timer,
     timerStartsOnThrow |-> options.timerStartsOnThrow,
     timerStarted |-> options.timerStartsOnThrow,
     timeOnGround |-> 0,
     triggeredByProximity |-> options.triggeredByProximity,
     isTriggered |-> FALSE, triggerTimer |-> 0,
     triggerDelay |-> Seconds(OrElse(options.weapon.triggerDelay, 3)),
     isDud |-> options.weapon.dudChance /\ dud,
     dudActivated |-> FALSE,
     explodesOnSettle |-> options.weapon.explodesOnSettle,
     settleVelocityThreshold |-> OrElse(options.weapon.settleVelocityThreshold, 100),
     settleTime |-> 0,
     settleRequiredTime |-> (3 * TimeUnitsPerSecond) \div 10,
     stationary |-> FALSE, destroyed |-> FALSE,
     shooter |-> 0,      \* the index of the koala that fired it, 0 for none
     id |-> 0]           \* history: the fireWeapon call that made it

\* A direction (cos, sin) = (dir[1] / dir[3], dir[2] / dir[3]).
\* WeaponManager.createProjectile(x, y, angle, power): weapon is currentWeapon,
\* timerSetting is WeaponManager.timer in seconds, power is in hundredths.
createProjectile(weapon, timerSetting, x, y, dir, power, dud) ==
    LET actualPower == Max(20, power)
        speed == (weapon.speed * actualPower) \div 100
        projectileTimer ==
            IF weapon.usesTimer
            THEN Seconds(IF weapon.fixedTimer # None THEN weapon.fixedTimer
                         ELSE IF timerSetting # None THEN timerSetting
                         ELSE OrElse(weapon.defaultTimer, 3))
            ELSE None
    IN  Projectile([x |-> x, y |-> y,
                    vx |-> (dir[1] * speed) \div dir[3],
                    vy |-> (dir[2] * speed) \div dir[3],
                    type |-> weapon.type, weapon |-> weapon,
                    timer |-> projectileTimer,
                    timerStartsOnThrow |-> weapon.timerStartsOnThrow,
                    gravityMultiplier |-> OrElse(weapon.gravity, 1),
                    affectedByWind |-> weapon.affectedByWind # "false",
                    bounces |-> weapon.bounces,
                    bounciness |-> OrElse(weapon.bounciness, 50),
                    triggeredByProximity |-> weapon.triggeredByProximity], dud)

\* The earlier createProjectile: no fixedTimer, and timerStartsOnThrow is not
\* handed to the Projectile.
createProjectileLegacy(weapon, timerSetting, x, y, dir, power, dud) ==
    createProjectile([weapon EXCEPT !.fixedTimer = None, !.timerStartsOnThrow = FALSE],
                     timerSetting, x, y, dir, power, dud)

\* A starting timer that restarts the count at every terrain hit.
onTerrainHitRestarts(p) ==
    IF p.timer # None THEN [p EXCEPT !.timerStarted = TRUE, !.timeOnGround = 0] ELSE p

\* Projectile.onTerrainHit()
onTerrainHit(p) ==
    IF ~p.timerStarted /\ p.timer # None
    THEN [p EXCEPT !.timerStarted = TRUE, !.timeOnGround = 0]
    ELSE p

\* A dud that signals at every call.
DudSignalEveryCall(p) == "dud"

\* What update() returns for a triggered dud: 'dud' once, false afterwards.
DudSignal(p) == IF ~p.dudActivated THEN "dud" ELSE "false"

\* Projectile.update(dt, wind): the projectile it leaves and the value it
\* returns, "true", "false" or "dud".
update(p, dt) ==
    LET slow == p.vx * p.vx + p.vy * p.vy
                    < p.settleVelocityThreshold * p.settleVelocityThreshold
        p1 == IF ~p.explodesOnSettle THEN p
              ELSE IF slow THEN [p EXCEPT !.settleTime = @ + dt]
              ELSE [p EXCEPT !.settleTime = 0]
        p2 == [p1 EXCEPT !.triggerTimer = @ + dt]
        timed(q) ==
            IF q.timer # None /\ q.timerStarted
            THEN LET q1 == [q EXCEPT !.timeOnGround = @ + dt]
                 IN  [p |-> q1, ret |-> IF q1.timeOnGround >= q1.timer THEN "true" ELSE "false"]
            ELSE [p |-> q, ret |-> "false"]
    IN  IF p.explodesOnSettle /\ slow /\ p1.settleTime >= p1.settleRequiredTime
        THEN [p |-> p1, ret |-> "true"]
        ELSE IF p1.triggeredByProximity /\ p1.stationary /\ p1.isTriggered
        THEN IF p1.isDud
             THEN [p |-> [p1 EXCEPT !.dudActivated = TRUE], ret |-> DudSignal(p1)]
             ELSE IF p2.triggerTimer >= p2.triggerDelay
             THEN [p |-> p2, ret |-> "true"]
             ELSE timed(p2)
        ELSE timed(p1)

\* What an if (shouldExplode) makes of update()'s value.
Truthy(ret) == ret # "false"

\* No projectile: the value of proj where no Projectile is driven on its own.
NoProjectile == createProjectile(NoWeapon, None, 0, 0, <<1, 0, 1>>, 0, FALSE)

\* The variables of the projectile on its own, where there is none.
NoHarness ==
    /\ proj = NoProjectile
    /\ lastReturn = "none"
    /\ calls = 0
    /\ contacts = 0
    /\ sinceContact = [last |-> 0, sum |-> 0]

\* The variables of the game, where no game is running.
NoGame ==
    /\ followingProjectile = 0
    /\ projectiles = <<>>
    /\ koalas = <<>>
    /\ phase = "waiting"
    /\ wind = 0
    /\ frameDt = 0
    /\ impactLog = <<>>

\* new Koala(x, y, team), then onGround = true
Koala(x, y, team) ==
    [x |-> x, y |-> y, vx |-> 0, vy |-> 0, width |-> 24, height |-> 30,
     team |-> team, health |-> 100, isAlive |-> TRUE, onGround |-> TRUE,
     fallDistance |-> 0]

\* No touchdown yet; dt is the frame time of the run, applies counts the
\* applyFallDamage() calls that charged the koala.
NoLanding == [file |-> "none", fell |-> 0, charged |-> 0, left |-> 0, alive |-> FALSE,
              dt |-> 0, applies |-> 0]

\* The variables of the koala on its own, where there is none.
NoPhysics ==
    /\ entity = Koala(0, 0, 0)
    /\ landing = NoLanding

\* No Game.update() yet.
NoTick == [dt |-> None, first |-> FALSE, carved |-> FALSE, bitmap |-> NoImageData,
           blasted |-> <<>>, resets |-> 0]

\* The variables of the game loop, where it does not run.
NoLoop ==
    /\ lastTime = 0
    /\ clock = 0
    /\ tickLog = NoTick

\* No call of resolveTerrainCollision under way
NoScan == scan = [pc |-> "none", cursor |-> 0, from |-> 0, e0 |-> Koala(0, 0, 0)]

\* The second run of a pair of runs, where there is none
NoTwin ==
    twin = [on |-> FALSE,
            g |-> [projectiles |-> <<>>, koalas |-> <<>>, canvas |-> NoImageData,
                   imageData |-> NoImageData, lastCrater |-> NoCrater, impactLog |-> <<>>],
            phase |-> "waiting", shots |-> <<>>]

\* No turn under way and no SpatialGrid built
NoTurn == turn = [phase |-> "none"]
NoGrid == grid = [cells |-> <<>>]

\* The variables of the other specifications, where only the terrain, the
\* projectile or the projectile loop runs.
NoExtras ==
    /\ physicsFile = "none"
    /\ NoPhysics
    /\ NoLoop
    /\ NoTwin
    /\ NoTurn
    /\ NoGrid
    /\ NoScan

(***************************************************************************)
(* The terrain on its own: a Terrain of TestWidth x TestHeight pixels, a   *)
(* map generated or loaded into it, and craters carved.                    *)
(***************************************************************************)
CraterCentres == {<<2, 4>>, <<TestWidth - 1, TestHeight - 5>>}
CraterRadii == {3, 5}

InitTerrain ==
    /\ width = TestWidth
    /\ height = TestHeight
    /\ canvas = BlankCanvas(TestWidth, TestHeight)
    /\ imageData = NoImageData
    /\ lastCrater = NoCrater
    /\ NoHarness
    /\ NoGame
    /\ NoExtras

\* Terrain.generate()
generate ==
    /\ canvas' = [BlankCanvas(width, height) EXCEPT !.map = "fixed"]
    /\ imageData' = updateCollisionMask(canvas')
    /\ lastCrater' = NoCrater
    /\ UNCHANGED <<width, height, harnessVars, gameVars, followingProjectile, extraVars>>

\* Game.loadCustomMap(mapData), the image loaded
loadCustomMap ==
    \E img \in CustomMaps :
        /\ canvas' = [BlankCanvas(width, height) EXCEPT !.map = img]
        /\ imageData' = updateCollisionMask(canvas')
        /\ lastCrater' = NoCrater
        /\ UNCHANGED <<width, height, harnessVars, gameVars, followingProjectile, extraVars>>

\* Terrain.createCrater(cx, cy, radius) on a map in play
createCrater ==
    \E c \in CraterCentres, r \in CraterRadii :
        /\ imageData # NoImageData
        /\ Len(canvas.craters) < MaxCraters
        /\ canvas' = CraterCanvas(canvas, c[1], c[2], r)
        /\ imageData' = CraterMask(canvas, imageData, c[1], c[2], r, TRUE)
        /\ lastCrater' = [cx |-> c[1], cy |-> c[2], r |-> r, before |-> imageData]
        /\ UNCHANGED <<width, height, harnessVars, gameVars, followingProjectile, extraVars>>

NextTerrain == generate \/ loadCustomMap \/ createCrater

SpecTerrain == InitTerrain /\ [][NextTerrain]_vars

(***************************************************************************)
(* One Projectile on its own, driven the way Game.updateProjectiles drives *)
(* it: update(dt) after the physics step of each frame, onTerrainHit() on  *)
(* a bounce or a slow landing, stationary when it lands, isTriggered when  *)
(* a koala comes near.                                                     *)
(***************************************************************************)
\* update() calls counted after the trigger, terrain hits counted.
MaxCalls == 3
MaxContacts == 2

\* Frame times, in time units: dt = Math.min(dt, 0.05).
HarnessDts == {1, 2}
\* Speeds the physics step and a bounce may leave, px/s.
HarnessSpeeds == {30, 80, 300}
\* WeaponManager.timer: setTimer() keeps it between 1 and 5 s.
HarnessTimers == {1, 3}

HarnessProjectiles ==
    {createProjectile(createWeapons[w], t, 0, 0, <<1, 0, 1>>, 100, d) :
        w \in DOMAIN createWeapons, t \in HarnessTimers, d \in BOOLEAN}
    \cup {createProjectileLegacy(createWeaponsLegacy[w], t, 0, 0, <<1, 0, 1>>, 100, FALSE) :
        w \in DOMAIN createWeaponsLegacy, t \in HarnessTimers}

InitProjectile ==
    /\ width = TestWidth
    /\ height = TestHeight
    /\ canvas = BlankCanvas(TestWidth, TestHeight)
    /\ imageData = NoImageData
    /\ lastCrater = NoCrater
    /\ NoGame
    /\ NoExtras
    /\ proj \in HarnessProjectiles
    /\ lastReturn = "none"
    /\ calls = 0
    /\ contacts = 0
    /\ sinceContact = [last |-> 0, sum |-> 0]

\* One frame of a projectile the loop still holds: the physics step leaves a
\* flying projectile some velocity, then proj.update(dt) runs.
ProjectileUpdate ==
    \E dt \in HarnessDts, v \in HarnessSpeeds :
        LET moved == IF proj.stationary THEN proj ELSE [proj EXCEPT !.vx = v]
            r == update(moved, dt)
        IN  /\ lastReturn # "true"
            /\ proj.stationary => v = 30
            /\ proj' = r.p
            /\ lastReturn' = r.ret
            /\ calls' = IF proj.isTriggered THEN Min(calls + 1, MaxCalls) ELSE calls
            /\ sinceContact' = [last |-> dt,
                                sum |-> IF contacts > 0 /\ proj.timer # None
                                        THEN sinceContact.sum + dt
                                        ELSE sinceContact.sum]
            /\ UNCHANGED <<contacts, terrainVars, gameVars, followingProjectile, extraVars>>

\* A terrain hit of a bouncing projectile faster than 40 px/s: it bounces.
ProjectileBounce ==
    \E v \in HarnessSpeeds :
        /\ lastReturn # "true"
        /\ proj.bounces /\ ~proj.stationary
        /\ proj.vx * proj.vx + proj.vy * proj.vy > 40 * 40
        /\ contacts < MaxContacts
        /\ proj' = onTerrainHit([proj EXCEPT !.vx = v, !.vy = 0, !.bounceCount = @ + 1])
        /\ contacts' = contacts + 1
        /\ UNCHANGED <<lastReturn, calls, sinceContact, terrainVars, gameVars, followingProjectile, extraVars>>

\* A terrain hit of a bouncing projectile at 40 px/s or less: it settles.
ProjectileSettle ==
    /\ lastReturn # "true"
    /\ proj.bounces /\ ~proj.stationary
    /\ proj.vx * proj.vx + proj.vy * proj.vy <= 40 * 40
    /\ contacts < MaxContacts
    /\ proj' = onTerrainHit([proj EXCEPT !.vx = 0, !.vy = 0, !.stationary = TRUE])
    /\ contacts' = contacts + 1
    /\ UNCHANGED <<lastReturn, calls, sinceContact, terrainVars, gameVars, followingProjectile, extraVars>>

\* A terrain hit of a mine: it sticks, and onTerrainHit() is not called.
ProjectileStick ==
    /\ lastReturn # "true"
    /\ ~proj.bounces /\ proj.type = "mine" /\ ~proj.stationary
    /\ proj' = [proj EXCEPT !.vx = 0, !.vy = 0, !.stationary = TRUE]
    /\ UNCHANGED <<lastReturn, calls, contacts, sinceContact, terrainVars, gameVars, followingProjectile, extraVars>>

\* A living koala within 65 px of a lying mine.
ProjectileTrigger ==
    /\ lastReturn # "true"
    /\ proj.triggeredByProximity /\ proj.stationary /\ ~proj.isTriggered
    /\ proj' = [proj EXCEPT !.isTriggered = TRUE]
    /\ UNCHANGED <<lastReturn, calls, contacts, sinceContact, terrainVars, gameVars, followingProjectile, extraVars>>

NextProjectile ==
    \/ ProjectileUpdate
    \/ ProjectileBounce
    \/ ProjectileSettle
    \/ ProjectileStick
    \/ ProjectileTrigger

SpecProjectile == InitProjectile /\ [][NextProjectile]_vars

(***************************************************************************)
(* The game: Game.fireWeapon and Game.updateProjectiles on the generated   *)
(* map.  Positions are in units of 1/40 px, so that a frame's step         *)
(* x += vx * dt is exact; velocities are in px/s.                          *)
(***************************************************************************)
worldWidth == 2400
worldHeight == 1200
gravity == 400
\* createTeams(): koalaCount of each of the two teams
koalaCount == 3
\* WeaponManager.timer, in seconds
WeaponTimer == 3

UnitsPerPixel == TimeUnitsPerSecond
Pixels(n) == n * UnitsPerPixel
\* the pixel a position lies in, and the position as the number of pixels
PixelOf(u) == u \div UnitsPerPixel

\* Frame times in time units, wind forces (Game.wind * 100) in px/s^2.
FrameDts == {1, 2}
Winds == {0, 40}
\* Aiming directions and powers (hundredths) of a shot.
Directions == {<<3, -4, 5>>, <<-4, -3, 5>>, <<1, 0, 1>>, <<0, 1, 1>>}
Powers == {20, 60}
\* The columns createTeams() draws for the koalas, in team order.
SpawnColumns == <<400, 1000, 1600, 700, 1300, 1900>>

\* The sequence sq, each of its elements worked out once.
Evaluated(sq) == sq \o <<>>

\* createTeams(): each koala on the ground of its column, feet on the ground
createTeams(cv) == Evaluated(
    [i \in 1..(2 * koalaCount) |->
        LET solid(g) == VisualAlpha(cv, SpawnColumns[i], g) >= 128
            rows == 0..(cv.h - 11)
            \* getGroundBelow() from a point above the topmost surface of the column
            groundY == IF \A g \in rows : ~solid(g) THEN cv.h
                       ELSE CHOOSE g \in rows : solid(g) /\ \A k \in 0..(g - 1) : ~solid(k)
        IN  Koala(Pixels(SpawnColumns[i]), Pixels(groundY - 15),
                  IF i <= koalaCount THEN 1 ELSE 2)])

\* Koala.takeDamage(amount); an undefined amount leaves health NaN, kept as None
takeDamage(k, amount) ==
    IF ~k.isAlive THEN k
    ELSE IF amount = None \/ k.health = None THEN [k EXCEPT !.health = None]
    ELSE [k EXCEPT !.health = Max(0, @ - amount)]

\* Physics.updateProjectile(proj, dt)
updateProjectile(p, dt, windForce) ==
    LET vy == p.vy + (gravity * p.gravityMultiplier * dt) \div TimeUnitsPerSecond
        vx == IF p.affectedByWind THEN p.vx + (windForce * dt) \div TimeUnitsPerSecond
              ELSE p.vx
    IN  [p EXCEPT !.vx = vx, !.vy = vy, !.x = @ + vx * dt, !.y = @ + vy * dt]

\* Whether the points a and b, in position units, are less than r px apart.
Within(ax, ay, bx, by, r) ==
    /\ Abs(ax - bx) < Pixels(r)
    /\ Abs(ay - by) < Pixels(r)
    /\ (ax - bx) * (ax - bx) + (ay - by) * (ay - by) < Pixels(r) * Pixels(r)

\* Math.hypot of two points less than 200 px apart, in position units
Distance(ax, ay, bx, by) == ISqrt((ax - bx) * (ax - bx) + (ay - by) * (ay - by))

\* findNearbyKoala(x, y, radius): the index of the nearest living koala within
\* radius, 0 for null
findNearbyKoala(ks, x, y, radius) ==
    LET near == {i \in DOMAIN ks : ks[i].isAlive /\ Within(ks[i].x, ks[i].y, x, y, radius)}
    IN  IF near = {} THEN 0
        ELSE CHOOSE i \in near :
                \A j \in near :
                    LET di == Distance(ks[i].x, ks[i].y, x, y)
                        dj == Distance(ks[j].x, ks[j].y, x, y)
                    IN  di < dj \/ (di = dj /\ i <= j)

\* The ray march of updateProjectiles from (prevX, prevY) to (x, y):
\* steps = max(1, ceil(distance / 4)), sample s at prev + d * (s / steps).
MarchSteps(prevX, prevY, x, y) ==
    Max(1, CeilHypotDiv(x - prevX, y - prevY, Pixels(4)))

MarchSample(prev, cur, steps, sm) == (prev * steps + (cur - prev) * sm) \div steps

\* The first sample inside the terrain, 0 when there is none.
RECURSIVE FirstTerrainHit(_, _, _, _, _, _, _)
FirstTerrainHit(img, prevX, prevY, x, y, steps, sm) ==
    IF sm > steps THEN 0
    ELSE IF CheckCollisionIn(img, worldWidth, worldHeight,
                             <<prevX * steps + (x - prevX) * sm, UnitsPerPixel * steps>>,
                             <<prevY * steps + (y - prevY) * sm, UnitsPerPixel * steps>>)
    THEN sm
    ELSE FirstTerrainHit(img, prevX, prevY, x, y, steps, sm + 1)

\* A ray cast that dead koalas stop as well.
KoalaAtDeadOrAlive(ks, shooter, x, y) ==
    LET hit == {i \in DOMAIN ks : i # shooter /\ Within(ks[i].x, ks[i].y, x, y, 20)}
    IN  IF hit = {} THEN 0 ELSE CHOOSE i \in hit : \A j \in hit : i <= j

\* The koala a sample touches: the first living koala other than the shooter
\* less than 20 px from it, in team order; 0 for none.
KoalaAt(ks, shooter, x, y) ==
    LET hit == {i \in DOMAIN ks : i # shooter /\ ks[i].isAlive
                                   /\ Within(ks[i].x, ks[i].y, x, y, 20)}
    IN  IF hit = {} THEN 0 ELSE CHOOSE i \in hit : \A j \in hit : i <= j

\* The first sample that touches a koala, 0 when there is none.
RECURSIVE FirstKoalaHit(_, _, _, _, _, _, _, _)
FirstKoalaHit(ks, shooter, prevX, prevY, x, y, steps, sm) ==
    IF sm > steps THEN 0
    ELSE IF KoalaAt(ks, shooter, MarchSample(prevX, x, steps, sm),
                    MarchSample(prevY, y, steps, sm)) # 0
    THEN sm
    ELSE FirstKoalaHit(ks, shooter, prevX, prevY, x, y, steps, sm + 1)

\* What the loop has done with one projectile: handleProjectileImpact and
\* createCrater calls made for it, whether removeProjectile took it and the
\* object it left, whether a frame found a sample of its path inside the
\* terrain, whether a frame has handled it after its removal, and its last
\* terrain hit as a bouncing projectile: the projectile at the impact point,
\* the surface normal there and the projectile the bounce branch left; and its
\* last detonation: the projectile, the koalas before it, after the blast and after the call,
\* the koala hit directly (0 for none).
NoLog ==
    [impacts |-> 0, craters |-> 0, removed |-> FALSE, final |-> NoProjectile,
     pathInTerrain |-> FALSE, handledAfterRemoval |-> FALSE,
     bounced |-> FALSE, hit |-> NoProjectile, normal |-> NormalOf([nx |-> 0, ny |-> 0]),
     left |-> NoProjectile,
     detonated |-> NoProjectile, before |-> <<>>, blasted |-> <<>>, after |-> <<>>,
     direct |-> 0]

\* A blast that rounds the damage down.
BlastDamageFloored(weapon, dist) ==
    (weapon.damage * (Pixels(weapon.explosionRadius) - dist))
        \div Pixels(weapon.explosionRadius)

\* handleProjectileImpact: Math.round(weapon.damage * (1 - dist / explosionRadius))
BlastDamage(weapon, dist) ==
    (2 * weapon.damage * (Pixels(weapon.explosionRadius) - dist)
        + Pixels(weapon.explosionRadius)) \div (2 * Pixels(weapon.explosionRadius))

\* handleProjectileImpact: weapon.knockback * (1 - dist / explosionRadius)
BlastKnockback(weapon, dist) ==
    (weapon.knockback * (Pixels(weapon.explosionRadius) - dist))
        \div Pixels(weapon.explosionRadius)

\* handleProjectileImpact: what the blast of projectile p does to koala k
Blast(k, p) ==
    IF k.isAlive /\ Within(k.x, k.y, p.x, p.y, p.weapon.explosionRadius)
    THEN LET dist == Distance(k.x, k.y, p.x, p.y)
             knockback == BlastKnockback(p.weapon, dist)
             hurt == takeDamage(k, BlastDamage(p.weapon, dist))
         IN  [hurt EXCEPT
                !.vx = @ + (IF dist = 0 THEN knockback
                            ELSE ((k.x - p.x) * knockback) \div dist),
                !.vy = @ + (IF dist = 0 THEN 0
                            ELSE ((k.y - p.y) * knockback) \div dist)]
    ELSE k

\* handleProjectileImpact: the direct hit bonus, weapon.directDamage || weapon.damage
DirectHitBonus(weapon) == OrElse(weapon.directDamage, weapon.damage)

\* handleProjectileImpact(projectile, directHitKoala) on the game g, for the
\* projectile at index i; directHitKoala is a koala's index, 0 for null.
handleProjectileImpact(g, i, directHitKoala) ==
    LET p == g.projectiles[i]
        weapon == p.weapon
        R == weapon.explosionRadius
        cx == PixelOf(p.x)
        cy == PixelOf(p.y)
        blasted == IF R > 0
                   THEN Evaluated([j \in DOMAIN g.koalas |-> Blast(g.koalas[j], p)])
                   ELSE g.koalas
        after == IF directHitKoala # 0
                 THEN [blasted EXCEPT ![directHitKoala] =
                          takeDamage(@, DirectHitBonus(weapon))]
                 ELSE blasted
    IN  [g EXCEPT
            !.canvas = IF R > 0 THEN CraterCanvas(g.canvas, cx, cy, R) ELSE @,
            !.imageData = IF R > 0 THEN CraterMask(g.canvas, g.imageData, cx, cy, R, TRUE)
                          ELSE @,
            !.lastCrater = IF R > 0
                           THEN [cx |-> cx, cy |-> cy, r |-> R, before |-> g.imageData]
                           ELSE @,
            !.koalas = after,
            !.impactLog[p.id].impacts = @ + 1,
            !.impactLog[p.id].craters = IF R > 0 THEN @ + 1 ELSE @,
            !.impactLog[p.id].detonated = p,
            !.impactLog[p.id].before = g.koalas,
            !.impactLog[p.id].blasted = blasted,
            !.impactLog[p.id].after = after,
            !.impactLog[p.id].direct = directHitKoala]

\* The sequence sq without its element i: splice(i, 1).
Splice(sq, i) == [j \in 1..(Len(sq) - 1) |-> IF j < i THEN sq[j] ELSE sq[j + 1]]

\* A removeProjectile that takes the projectile and leaves its flag alone.
removeProjectileUnmarked(g, i) ==
    [g EXCEPT !.projectiles = Splice(@, i),
              !.impactLog[g.projectiles[i].id].removed = TRUE,
              !.impactLog[g.projectiles[i].id].final = g.projectiles[i]]

\* removeProjectile(index)
removeProjectile(g, i) ==
    [g EXCEPT !.projectiles = Splice(@, i),
              !.impactLog[g.projectiles[i].id].removed = TRUE,
              !.impactLog[g.projectiles[i].id].final =
                    [g.projectiles[i] EXCEPT !.destroyed = TRUE]]

\* handleRopeHit(proj): the shooter is pulled towards the hook
handleRopeHit(g, i) ==
    LET p == g.projectiles[i]
        player == g.koalas[p.shooter]
        dx == PixelOf(p.x - player.x)
        dy == PixelOf(p.y - player.y)
        dist == ISqrt(dx * dx + dy * dy)
    IN  IF p.shooter = 0 \/ dist = 0 THEN g
        ELSE [g EXCEPT !.koalas[p.shooter].vx = (dx * 1200) \div dist,
                       !.koalas[p.shooter].vy = (dy * 1800) \div dist,
                       !.koalas[p.shooter].onGround = FALSE]

\* normal * k px, in position units
PushOut(component, k) == (Pixels(k) * component[1]) \div component[2]

\* A bounce that keeps the speed it came with.
ReflectUndamped(v, c, dot2, len2, bounciness) == (v * len2 - dot2 * c) \div len2

\* One component of (v - 2 * dot * normal) * bounciness: c is the component of
\* the sum the normal came from, len2 its squared length, dot2 twice the dot
\* product of the velocity with the sum; bounciness is in hundredths.
Reflect(v, c, dot2, len2, bounciness) == (((v * len2 - dot2 * c) \div len2) * bounciness) \div 100

\* A bouncing projectile p at its impact point, normal the surface normal
\* there: it bounces when faster than 40 px/s and settles otherwise;
\* onTerrainHit() in both cases.
BounceOrSettle(p, normal) ==
    IF p.vx * p.vx + p.vy * p.vy > 40 * 40
    THEN onTerrainHit(
            [p EXCEPT
                !.vx = Reflect(p.vx, normal.nx, 2 * (p.vx * normal.nx + p.vy * normal.ny),
                               normal.len2, p.bounciness),
                !.vy = Reflect(p.vy, normal.ny, 2 * (p.vx * normal.nx + p.vy * normal.ny),
                               normal.len2, p.bounciness),
                !.x = @ + PushOut(normal.x, 4),
                !.y = @ + PushOut(normal.y, 4),
                !.bounceCount = @ + 1])
    ELSE onTerrainHit([p EXCEPT !.vx = 0, !.vy = 0, !.stationary = TRUE,
                                !.x = @ + PushOut(normal.x, 2),
                                !.y = @ + PushOut(normal.y, 2)])

\* A mine at its impact point: it sticks.
Stick(p, normal) ==
    [p EXCEPT !.vx = 0, !.vy = 0, !.stationary = TRUE,
              !.x = @ + PushOut(normal.x, 2),
              !.y = @ + PushOut(normal.y, 2)]

\* The game g with projectile i replaced by q.
WithProjectile(g, i, q) == [g EXCEPT !.projectiles[i] = q]

\* The projectile p moved to sample sm of its path.
AtSample(p, prevX, prevY, steps, sm) ==
    [p EXCEPT !.x = MarchSample(prevX, p.x, steps, sm),
              !.y = MarchSample(prevY, p.y, steps, sm)]

\* The terrain hit of projectile i, which is at its impact point.
TerrainHit(g, i, p, normal) ==
    IF p.bounces
    THEN [WithProjectile(g, i, BounceOrSettle(p, normal)) EXCEPT
             !.impactLog[p.id].bounced = TRUE,
             !.impactLog[p.id].hit = p,
             !.impactLog[p.id].normal = normal,
             !.impactLog[p.id].left = BounceOrSettle(p, normal)]
    ELSE IF p.type = "mine" THEN WithProjectile(g, i, Stick(p, normal))
    ELSE IF p.type = "rope" THEN removeProjectile(handleRopeHit(WithProjectile(g, i, p), i), i)
    ELSE removeProjectile(handleProjectileImpact(WithProjectile(g, i, p), i, 0), i)

\* The koala ray cast of projectile i: hitKoala is the sample that touches one.
KoalaHit(g, i, p, hit) ==
    removeProjectile(
        handleProjectileImpact(WithProjectile(g, i, hit), i,
                               KoalaAt(g.koalas, p.shooter, hit.x, hit.y)), i)

\* A loop body that casts the ray at the koalas before it looks at the terrain.
ResolveKoalasFirst(g, i, prevX, prevY, shouldExplode, p, steps, hitTerrain) ==
    IF Truthy(shouldExplode)
    THEN removeProjectile(handleProjectileImpact(WithProjectile(g, i, p), i, 0), i)
    ELSE IF p.stationary THEN WithProjectile(g, i, p)
    ELSE IF FirstKoalaHit(g.koalas, p.shooter, prevX, prevY, p.x, p.y, steps, 1) # 0
    THEN KoalaHit(g, i, p,
                  AtSample(p, prevX, prevY, steps,
                           FirstKoalaHit(g.koalas, p.shooter, prevX, prevY, p.x, p.y, steps, 1)))
    ELSE IF hitTerrain # 0
    THEN TerrainHit(g, i, AtSample(p, prevX, prevY, steps, hitTerrain),
                    GetSurfaceNormalIn(g.imageData, worldWidth, worldHeight,
                        PixelOf(MarchSample(prevX, p.x, steps, hitTerrain)),
                        PixelOf(MarchSample(prevY, p.y, steps, hitTerrain))))
    ELSE IF p.x < Pixels(-100) \/ p.x > Pixels(worldWidth + 100)
            \/ p.y > Pixels(worldHeight + 100)
    THEN removeProjectile(WithProjectile(g, i, p), i)
    ELSE WithProjectile(g, i, p)

\* The loop body from if (shouldExplode) on: p is the projectile after physics,
\* update() and the proximity check, hitTerrain the first sample of its path
\* inside the terrain.
Resolve(g, i, prevX, prevY, shouldExplode, p, steps, hitTerrain) ==
    IF Truthy(shouldExplode)
    THEN removeProjectile(handleProjectileImpact(WithProjectile(g, i, p), i, 0), i)
    ELSE IF p.stationary THEN WithProjectile(g, i, p)
    ELSE IF hitTerrain # 0
    THEN TerrainHit(g, i, AtSample(p, prevX, prevY, steps, hitTerrain),
                    GetSurfaceNormalIn(g.imageData, worldWidth, worldHeight,
                        PixelOf(MarchSample(prevX, p.x, steps, hitTerrain)),
                        PixelOf(MarchSample(prevY, p.y, steps, hitTerrain))))
    ELSE IF p.x < Pixels(-100) \/ p.x > Pixels(worldWidth + 100)
            \/ p.y > Pixels(worldHeight + 100)
    THEN removeProjectile(WithProjectile(g, i, p), i)
    ELSE IF FirstKoalaHit(g.koalas, p.shooter, prevX, prevY, p.x, p.y, steps, 1) # 0
    THEN KoalaHit(g, i, p,
                  AtSample(p, prevX, prevY, steps,
                           FirstKoalaHit(g.koalas, p.shooter, prevX, prevY, p.x, p.y, steps, 1)))
    ELSE WithProjectile(g, i, p)

\* History: what this frame saw of projectile proj0.
Seen(g, proj0, hitTerrain) ==
    [g EXCEPT
        !.impactLog[proj0.id].pathInTerrain = @ \/ (~proj0.stationary /\ hitTerrain # 0),
        !.impactLog[proj0.id].handledAfterRemoval = @ \/ g.impactLog[proj0.id].removed]

Marched(g, i, proj0, shouldExplode, p, steps, hitTerrain) ==
    Resolve(Seen(g, proj0, hitTerrain), i, proj0.x, proj0.y, shouldExplode, p, steps, hitTerrain)

\* The ray march of the path from proj0 to p.
March(g, i, proj0, shouldExplode, p, steps) ==
    Marched(g, i, proj0, shouldExplode, p, steps,
            FirstTerrainHit(g.imageData, proj0.x, proj0.y, p.x, p.y, steps, 1))

\* Check mine proximity: a lying mine is triggered by a living koala within 65 px.
CheckProximity(ks, p) ==
    IF p.triggeredByProximity /\ p.stationary /\ ~p.isTriggered
       /\ findNearbyKoala(ks, p.x, p.y, 65) # 0
    THEN [p EXCEPT !.isTriggered = TRUE]
    ELSE p

Triggered(g, i, proj0, shouldExplode, p) ==
    March(g, i, proj0, shouldExplode, p, MarchSteps(proj0.x, proj0.y, p.x, p.y))

\* proj0 is the projectile before the frame, r what update() made of it after
\* the physics step.
Updated(g, i, proj0, r) == Triggered(g, i, proj0, r.ret, CheckProximity(g.koalas, r.p))

\* A round of the loop that moves stationary projectiles as well.
StepProjectileMovingAll(g, i, dt) ==
    Updated(g, i, g.projectiles[i],
            update(updateProjectile(g.projectiles[i], dt, wind), dt))

\* One round of the loop of updateProjectiles(dt), for the projectile at index i.
StepProjectile(g, i, dt) ==
    Updated(g, i, g.projectiles[i],
            update(IF ~g.projectiles[i].stationary
                   THEN updateProjectile(g.projectiles[i], dt, wind)
                   ELSE g.projectiles[i], dt))

\* for (let i = this.projectiles.length - 1; i >= 0; i--)
RECURSIVE ProjectileLoop(_, _, _)
ProjectileLoop(g, i, dt) ==
    IF i < 1 THEN g ELSE ProjectileLoop(StepProjectile(g, i, dt), i - 1, dt)

\* isBlocking: a projectile the projectile phase waits for
isBlocking(p) == ~p.stationary \/ (p.timer # None /\ p.timerStarted) \/ p.isTriggered

\* The shots of one run.
MaxShots == 1

\* The weapons fireWeapon() makes a projectile of.
Fireable == DOMAIN createWeapons

\* The game as Game.start() leaves it: the map generated, the teams placed,
\* the first turn started.
InitGame ==
    /\ width = worldWidth
    /\ height = worldHeight
    /\ canvas = [BlankCanvas(worldWidth, worldHeight) EXCEPT !.map = "fixed"]
    /\ imageData = updateCollisionMask(canvas)
    /\ lastCrater = NoCrater
    /\ NoHarness
    /\ NoExtras
    /\ followingProjectile = 0
    /\ projectiles = <<>>
    /\ koalas = createTeams(canvas)
    /\ phase = "aiming"
    /\ wind \in Winds
    /\ frameDt \in FrameDts
    /\ impactLog = <<>>

\* fireWeapon(angle, power): the projectile it makes of weapon w for the
\* current koala, the first koala of the first team, and pushes onto ps
Launch(ks, ps, id, w, dir, power, dud) ==
    Append(ps,
           [createProjectile(createWeapons[w], WeaponTimer,
                             ks[1].x + (dir[1] * Pixels(30)) \div dir[3],
                             (ks[1].y - Pixels(10)) + (dir[2] * Pixels(30)) \div dir[3],
                             dir, power, dud)
               EXCEPT !.shooter = 1, !.id = id])

\* fireWeapon(angle, power) with a projectile weapon selected, one of weapons,
\* aimed along one of directions with one of powers; the current koala is the
\* first koala of the first team.
FireUpTo(shots, weapons, directions, powers) ==
    \E w \in weapons, dir \in directions, power \in powers, dud \in BOOLEAN :
            /\ phase = "aiming"
            /\ Len(impactLog) < shots
            /\ dud => createWeapons[w].dudChance
            /\ phase' = "projectile"
            /\ projectiles' = Launch(koalas, projectiles, Len(impactLog) + 1, w, dir, power, dud)
            /\ impactLog' = Append(impactLog, NoLog)
            /\ followingProjectile' = Len(impactLog) + 1
            /\ UNCHANGED <<koalas, wind, frameDt, terrainVars, harnessVars, extraVars>>

Fire(weapons, directions, powers) == FireUpTo(MaxShots, weapons, directions, powers)

fireWeapon == Fire(Fireable, Directions, Powers)

\* The game a frame leaves.
FrameLeaves(after) ==
    /\ projectiles' = after.projectiles
    /\ koalas' = after.koalas
    /\ canvas' = after.canvas
    /\ imageData' = after.imageData
    /\ lastCrater' = after.lastCrater
    /\ impactLog' = after.impactLog

\* updateProjectiles(dt), one frame
updateProjectiles ==
    /\ phase # "waiting"
    /\ IF phase = "projectile" /\ \A i \in DOMAIN projectiles : ~isBlocking(projectiles[i])
       THEN \* startRetreat(); return
            /\ phase' = "retreat"
            /\ UNCHANGED <<projectiles, koalas, canvas, imageData, lastCrater, impactLog>>
       ELSE /\ FrameLeaves(ProjectileLoop(
                    [projectiles |-> projectiles, koalas |-> koalas, canvas |-> canvas,
                     imageData |-> imageData, lastCrater |-> lastCrater,
                     impactLog |-> impactLog],
                    Len(projectiles), frameDt))
            /\ UNCHANGED phase
    /\ UNCHANGED <<width, height, wind, frameDt, harnessVars, followingProjectile, extraVars>>

NextGame == fireWeapon \/ updateProjectiles

SpecGame == InitGame /\ [][NextGame]_vars

(***************************************************************************)
(* A shot at a thin wall: the world is a custom map with a wall a few      *)
(* pixels thick beside the first koala, who fires at it.                   *)
(***************************************************************************)
MarchWeapons == {"bazooka", "grenade", "shotgun", "mine", "rope"}
MarchDirections == {<<1, 0, 1>>, <<4, -3, 5>>, <<3, -4, 5>>}
MarchPowers == {20, 60, 100}

\* The game as loadCustomMap() and start() leave it
InitMarch ==
    /\ width = worldWidth
    /\ height = worldHeight
    /\ canvas \in {[BlankCanvas(worldWidth, worldHeight) EXCEPT !.map = m] : m \in WallMaps}
    /\ imageData = updateCollisionMask(canvas)
    /\ lastCrater = NoCrater
    /\ NoHarness
    /\ NoExtras
    /\ followingProjectile = 0
    /\ projectiles = <<>>
    /\ koalas = createTeams(canvas)
    /\ phase = "aiming"
    /\ wind \in Winds
    /\ frameDt \in FrameDts
    /\ impactLog = <<>>

\* fireWeapon(angle, power) towards the wall
fireAtWall == Fire(MarchWeapons, MarchDirections, MarchPowers)

\* updateProjectiles(dt), one frame of the shot
marchFrame == updateProjectiles

NextMarch == fireAtWall \/ marchFrame

SpecMarch == InitMarch /\ [][NextMarch]_vars

(***************************************************************************)
(* A shot with a koala close by: a custom map whose spawn markers put the   *)
(* first koala of the second team 80 px to the left of the shooter, with    *)
(* the wall on the shooter's right.  In a later turn that koala may have    *)
(* died where it stands.                                                    *)
(***************************************************************************)
\* The columns of the spawn markers of the custom map, in team order.
MarkerColumns == <<400, 1000, 1600, 320, 1300, 1900>>
\* The koala that stands beside the shooter.
Neighbour == koalaCount + 1
NearDirections == {<<-1, 0, 1>>, <<-3, -4, 5>>, <<-24, 7, 25>>, <<0, 1, 1>>, <<1, 0, 1>>}
NearPowers == {20, 60}

\* createTeams() with spawn markers: each koala at the column of its marker,
\* feet on the ground
createTeamsAtMarkers(cv, markers) == Evaluated(
    [i \in 1..(2 * koalaCount) |->
        LET solid(g) == VisualAlpha(cv, markers[i], g) >= 128
            rows == 0..(cv.h - 11)
            groundY == IF \A g \in rows : ~solid(g) THEN cv.h
                       ELSE CHOOSE g \in rows : solid(g) /\ \A k \in 0..(g - 1) : ~solid(k)
        IN  Koala(Pixels(markers[i]), Pixels(groundY - 15),
                  IF i <= koalaCount THEN 1 ELSE 2)])

\* Koala.die() after the damage that took the last of its health
Died(k) == [k EXCEPT !.health = 0, !.isAlive = FALSE]

InitNear ==
    /\ width = worldWidth
    /\ height = worldHeight
    /\ canvas = [BlankCanvas(worldWidth, worldHeight) EXCEPT !.map = "wall4"]
    /\ imageData = updateCollisionMask(canvas)
    /\ lastCrater = NoCrater
    /\ NoHarness
    /\ NoExtras
    /\ followingProjectile = 0
    /\ projectiles = <<>>
    /\ koalas \in {createTeamsAtMarkers(canvas, MarkerColumns),
                   [createTeamsAtMarkers(canvas, MarkerColumns) EXCEPT ![Neighbour] = Died(@)]}
    /\ phase = "aiming"
    /\ wind \in Winds
    /\ frameDt \in FrameDts
    /\ impactLog = <<>>

\* fireWeapon(angle, power) beside the neighbour
fireNear == Fire(Fireable, NearDirections, NearPowers)

\* updateProjectiles(dt), one frame of the shot
nearFrame == updateProjectiles

NextNear == fireNear \/ nearFrame

SpecNear == InitNear /\ [][NextNear]_vars

(***************************************************************************)
(* A shot from the edge of the world: a custom map whose spawn markers put  *)
(* the shooter 30 px from the left or from the right edge, so that a shot   *)
(* can leave the map and fall past its floor.                               *)
(***************************************************************************)
EdgeMargin == 30
EdgeMarkers == {<<EdgeMargin, 1000, 1600, 700, 1300, 1900>>,
                <<worldWidth - EdgeMargin, 1000, 1600, 700, 1300, 1900>>}
EdgeDirections == {<<-1, 0, 1>>, <<1, 0, 1>>, <<-4, -3, 5>>, <<4, -3, 5>>}
EdgePowers == {20, 60}

InitEdge ==
    /\ width = worldWidth
    /\ height = worldHeight
    /\ canvas = [BlankCanvas(worldWidth, worldHeight) EXCEPT !.map = "wall4"]
    /\ imageData = updateCollisionMask(canvas)
    /\ lastCrater = NoCrater
    /\ NoHarness
    /\ NoExtras
    /\ followingProjectile = 0
    /\ projectiles = <<>>
    /\ koalas \in {createTeamsAtMarkers(canvas, m) : m \in EdgeMarkers}
    /\ phase = "aiming"
    /\ wind \in Winds
    /\ frameDt \in FrameDts
    /\ impactLog = <<>>

\* fireWeapon(angle, power) at the edge
fireAtEdge == Fire(Fireable, EdgeDirections, EdgePowers)

\* updateProjectiles(dt), one frame of the shot
edgeFrame == updateProjectiles

NextEdge == fireAtEdge \/ edgeFrame

SpecEdge == InitEdge /\ [][NextEdge]_vars

(***************************************************************************)
(* A shot beside a lying mine: in an earlier turn the shooter has thrown a  *)
(* mine at the wall, where it sticks; now the shooter fires again.          *)
(***************************************************************************)
\* The frames of the earlier turn that the mine took to come to rest.
LyingFrames == 24
LyingWeapons == {"bazooka", "grenade", "dynamite"}
LyingDirections == {<<1, 0, 1>>, <<0, 1, 1>>}
LyingPowers == {20}

\* updateProjectiles(dt), n frames in a row
RECURSIVE Frames(_, _, _)
Frames(g, n, dt) ==
    IF n = 0 THEN g ELSE Frames(ProjectileLoop(g, Len(g.projectiles), dt), n - 1, dt)

\* The game after the earlier turn: the mine thrown at the wall, dud or not,
\* and the frames that followed
AfterMine(cv, dud, dt) ==
    Frames([projectiles |-> Launch(createTeams(cv), <<>>, 1, "mine", <<1, 0, 1>>, 20, dud),
            koalas |-> createTeams(cv), canvas |-> cv,
            imageData |-> updateCollisionMask(cv), lastCrater |-> NoCrater,
            impactLog |-> <<NoLog>>],
           LyingFrames, dt)

InitLying ==
    /\ width = worldWidth
    /\ height = worldHeight
    /\ NoHarness
    /\ NoExtras
    /\ followingProjectile = 0
    /\ phase = "aiming"
    /\ wind = 0
    /\ frameDt \in FrameDts
    /\ \E dud \in BOOLEAN :
        LET g == AfterMine([BlankCanvas(worldWidth, worldHeight) EXCEPT !.map = "wall4"],
                           dud, frameDt)
        IN  /\ canvas = g.canvas
            /\ imageData = g.imageData
            /\ lastCrater = g.lastCrater
            /\ projectiles = g.projectiles
            /\ koalas = g.koalas
            /\ impactLog = g.impactLog

\* fireWeapon(angle, power), the shot after the mine
fireBesideMine == FireUpTo(MaxShots + 1, LyingWeapons, LyingDirections, LyingPowers)

\* updateProjectiles(dt), one frame
lyingFrame == updateProjectiles

NextLying == fireBesideMine \/ lyingFrame

SpecLying == InitLying /\ [][NextLying]_vars

(***************************************************************************)
(* The koalas' physics (Physics).  The sources hold the class twice:       *)
(* js/engine/Physics.js, the module Game.js imports, and a later copy in   *)
(* js/network/NetworkManager.js, which lets a rising koala leave the       *)
(* ground, charges fall damage on touchdown and drowns a koala at the      *)
(* waterline.  Both are modelled; physicsFile names the one a run uses.    *)
(* Velocities are whole px/s: vx * friction and vy * 0.5 round to zero.    *)
(***************************************************************************)
EnginePhysics == "js/engine/Physics.js"
NetworkPhysics == "js/network/NetworkManager.js"
PhysicsFiles == {EnginePhysics, NetworkPhysics}

\* Physics.friction and Physics.bounciness in hundredths, Physics.terminalVelocity
friction == 95
wallBounciness == 50
terminalVelocity == 800

Trunc(n, d) == IF n >= 0 THEN n \div d ELSE 0 - ((0 - n) \div d)

\* The terrain Physics reads: this.game.terrain, this.game.worldWidth and
\* this.game.worldHeight (the Terrain is built worldWidth x worldHeight).
TerrainOf(img, w, h) == [img |-> img, w |-> w, h |-> h]

\* terrain.checkCollision(x, y) at a position in position units
Probe(t, xu, yu) ==
    CheckCollisionIn(t.img, t.w, t.h, <<xu, UnitsPerPixel>>, <<yu, UnitsPerPixel>>)

\* The number of times the body of
\*     while (inside && terrain.checkCollision(x, y)) { x += dx; y += dy }
\* runs from (xu, yu), where inside holds for the first limit iterations.
Walk(t, xu, yu, dx, dy, limit) ==
    CHOOSE k \in 0..limit :
        /\ k = limit \/ ~Probe(t, xu + k * dx, yu + k * dy)
        /\ \A j \in 0..(k - 1) : Probe(t, xu + j * dx, yu + j * dy)

\* The least number of whole pixels that takes a cursor at u to bound or beyond.
StepsTo(u, bound) == Max(0, (bound - u + UnitsPerPixel - 1) \div UnitsPerPixel)

\* Half the height and half the width of an entity, in position units
HalfHeight(e) == Pixels(e.height) \div 2
HalfWidth(e) == Pixels(e.width) \div 2

\* resolveTerrainCollision, the feet: the offsets of the probes that hit
FeetHits(t, e, searchDown) ==
    {offset \in -2..searchDown : Probe(t, e.x, e.y + HalfHeight(e) + Pixels(offset))}

\* resolveTerrainCollision, the feet: the walk up from the pixel row hitY
FeetSnapped(t, e, hitY) ==
    [e EXCEPT !.y = Pixels(hitY - Walk(t, e.x, Pixels(hitY), 0, 0 - Pixels(1), Max(hitY, 0)) + 1)
                        - HalfHeight(e),
              !.vy = 0, !.onGround = TRUE]

\* resolveTerrainCollision, the feet, with the probes that hit: returned is
\* set where the method returns early
FeetResolved(t, e, hits, file) ==
    IF hits = {} THEN [e |-> e, returned |-> FALSE]
    ELSE IF file = NetworkPhysics /\ e.vy < 0 THEN [e |-> e, returned |-> TRUE]
    ELSE [e |-> FeetSnapped(t, e,
                    PixelOf(e.y + HalfHeight(e)
                            + Pixels(CHOOSE o \in hits : \A other \in hits : o <= other))),
          returned |-> FALSE]

\* resolveTerrainCollision, the feet, after entity.onGround = false
FeetProbed(t, e, file) ==
    FeetResolved(t, e, FeetHits(t, e, IF e.onGround THEN 10 ELSE 3), file)

ResolveFeet(t, e, file) == FeetProbed(t, [e EXCEPT !.onGround = FALSE], file)

\* resolveTerrainCollision, the head
ResolveHead(t, e) ==
    IF Probe(t, e.x, e.y - HalfHeight(e))
    THEN [e EXCEPT !.y = (e.y - HalfHeight(e))
                         + Pixels(Walk(t, e.x, e.y - HalfHeight(e), 0, Pixels(1),
                                       StepsTo(e.y - HalfHeight(e), Pixels(t.h))))
                         + HalfHeight(e),
                   !.vy = Abs(e.vy) \div 2]
    ELSE e

\* resolveTerrainCollision, the right side
ResolveRight(t, e) ==
    IF Probe(t, e.x + HalfWidth(e), e.y)
    THEN [e EXCEPT !.x = (e.x + HalfWidth(e))
                         - Pixels(Walk(t, e.x + HalfWidth(e), e.y, 0 - Pixels(1), 0,
                                       StepsTo(0, e.x + HalfWidth(e))))
                         - HalfWidth(e),
                   !.vx = Trunc((0 - e.vx) * wallBounciness, 100)]
    ELSE e

\* resolveTerrainCollision, the left side
ResolveLeft(t, e) ==
    IF Probe(t, e.x - HalfWidth(e), e.y)
    THEN [e EXCEPT !.x = (e.x - HalfWidth(e))
                         + Pixels(Walk(t, e.x - HalfWidth(e), e.y, Pixels(1), 0,
                                       StepsTo(e.x - HalfWidth(e), Pixels(t.w))))
                         + HalfWidth(e),
                   !.vx = Trunc((0 - e.vx) * wallBounciness, 100)]
    ELSE e

\* resolveTerrainCollision after the feet
AfterFeet(t, feet) ==
    IF feet.returned THEN feet.e
    ELSE ResolveLeft(t, ResolveRight(t, ResolveHead(t, feet.e)))

\* Physics.resolveTerrainCollision(entity), in the Physics class of file
resolveTerrainCollision(t, e, file) == AfterFeet(t, ResolveFeet(t, e, file))

\* updateEntity: the move with the new vertical velocity vy, and the friction
Moved(e, dt, vy) ==
    [e EXCEPT !.vy = vy, !.x = @ + e.vx * dt, !.y = @ + vy * dt,
              !.vx = Trunc(e.vx * friction, 100)]

\* updateEntity: gravity, the velocity clamp, the move and the friction
Integrate(e, dt) ==
    Moved(e, dt, Min(e.vy + (gravity * dt) \div TimeUnitsPerSecond, terminalVelocity))

\* The fall damage Physics charges a koala that touches down after falling f
landingDamage(f) == (f - Pixels(260)) \div Pixels(5)

\* updateEntity, the fall tracking of js/engine/Physics.js
TrackFallEngine(e, prevY) ==
    IF e.vy > 0 /\ ~e.onGround
    THEN [e |-> [e EXCEPT !.fallDistance = @ + (e.y - prevY)], charged |-> None]
    ELSE IF e.onGround THEN [e |-> [e EXCEPT !.fallDistance = 0], charged |-> None]
    ELSE [e |-> e, charged |-> None]

\* updateEntity, the fall tracking of js/network/NetworkManager.js; charged is
\* the damage handed to takeDamage, None where it is not called
TrackFallNetwork(e, prevY) ==
    IF e.vy > 0 /\ ~e.onGround
    THEN [e |-> [e EXCEPT !.fallDistance = @ + (e.y - prevY)], charged |-> None]
    ELSE IF e.onGround /\ e.fallDistance > 0
    THEN IF e.isAlive /\ e.fallDistance > Pixels(260)
         THEN [e |-> [takeDamage(e, landingDamage(e.fallDistance)) EXCEPT !.fallDistance = 0],
               charged |-> landingDamage(e.fallDistance)]
         ELSE [e |-> [e EXCEPT !.fallDistance = 0], charged |-> None]
    ELSE [e |-> e, charged |-> None]

\* updateEntity, the water of js/network/NetworkManager.js
Drown(t, e) ==
    IF e.isAlive /\ e.y > Pixels(t.h - 60) THEN [e EXCEPT !.isAlive = FALSE] ELSE e

\* updateEntity, the world bounds
ClampToWorld(t, e) ==
    [e EXCEPT !.x = Max(Pixels(10), Min(Pixels(t.w - 10), e.x)),
              !.y = Max(0, Min(Pixels(t.h - 10), e.y))]

\* updateEntity after the fall tracking: the water and the world bounds
AfterTracking(t, tracked, file) ==
    [e |-> ClampToWorld(t, IF file = NetworkPhysics THEN Drown(t, tracked.e) ELSE tracked.e),
     charged |-> tracked.charged]

\* Physics.updateEntity(entity, dt), in the Physics class of file: the entity
\* it leaves and the fall damage it charged
UpdateEntityCharging(t, e, dt, file) ==
    AfterTracking(t,
        IF file = NetworkPhysics
        THEN TrackFallNetwork(resolveTerrainCollision(t, Integrate(e, dt), file), e.y)
        ELSE TrackFallEngine(resolveTerrainCollision(t, Integrate(e, dt), file), e.y),
        file)

updateEntity(t, e, dt, file) == UpdateEntityCharging(t, e, dt, file).e

\* applyFallDamage, the water: a koala below worldHeight - 50 dies
Sunk(worldH, k) ==
    IF k.isAlive /\ k.y > Pixels(worldH - 50) THEN [k EXCEPT !.isAlive = FALSE] ELSE k

\* Game.applyFallDamage(), for one koala
applyFallDamage(worldH, k) ==
    Sunk(worldH,
         IF k.isAlive /\ k.fallDistance > Pixels(50)
         THEN [takeDamage(k, (k.fallDistance - Pixels(50)) \div Pixels(5))
                  EXCEPT !.fallDistance = 0]
         ELSE k)

(***************************************************************************)
(* A koala on its own on the generated map: in the air above a column, as  *)
(* a teleport or a blast leaves it, then moved by Physics.update() frame   *)
(* by frame, while the damage phase may run applyFallDamage().             *)
(***************************************************************************)
MaxApplies == 1
DropColumns == {400, 1300}
DropHeights == {100, 300}

InitPhysics ==
    /\ width = worldWidth
    /\ height = worldHeight
    /\ canvas = [BlankCanvas(worldWidth, worldHeight) EXCEPT !.map = "fixed"]
    /\ imageData = updateCollisionMask(canvas)
    /\ lastCrater = NoCrater
    /\ NoHarness
    /\ NoGame
    /\ NoLoop
    /\ NoTwin
    /\ NoTurn
    /\ NoGrid
    /\ NoScan
    /\ physicsFile \in PhysicsFiles
    /\ \E x \in DropColumns, y \in DropHeights, dt \in FrameDts :
          /\ entity = [Koala(Pixels(x), Pixels(y), 1) EXCEPT !.onGround = FALSE]
          /\ landing = [NoLanding EXCEPT !.dt = dt]

\* The koala and the history a step of updateEntity leaves
EntityLeaves(step) ==
    /\ entity' = step.e
    /\ landing' = IF ~entity.onGround /\ step.e.onGround
                  THEN [landing EXCEPT !.file = physicsFile,
                                       !.fell = entity.fallDistance,
                                       !.charged = OrElse(step.charged, 0),
                                       !.left = step.e.fallDistance,
                                       !.alive = entity.isAlive]
                  ELSE landing

\* Physics.update(dt) with entity the only koala
physicsUpdate ==
        /\ EntityLeaves(UpdateEntityCharging(TerrainOf(imageData, width, height), entity,
                                             landing.dt, physicsFile))
        /\ UNCHANGED <<physicsFile, terrainVars, harnessVars, gameVars, followingProjectile, loopVars, twinVars, scanVars, turnVars, gridVars>>

\* Game.processDamage(), run by a timeout in the damage phase: applyFallDamage();
\* a call that charges nothing leaves the koala as it is
processDamage ==
    /\ landing.applies < MaxApplies
    /\ applyFallDamage(height, entity) # entity
    /\ entity' = applyFallDamage(height, entity)
    /\ landing' = [landing EXCEPT !.applies = @ + 1]
    /\ UNCHANGED <<physicsFile, terrainVars, harnessVars, gameVars, followingProjectile, loopVars, twinVars, scanVars, turnVars, gridVars>>

NextPhysics == physicsUpdate \/ processDamage

SpecPhysics == InitPhysics /\ [][NextPhysics]_vars

(***************************************************************************)
(* The game loop: start(), the animation frames that follow and reset().   *)
(* Each runs Game.update(dt): the projectiles, then the koalas' physics,   *)
(* then the camera.  The turn timer (30 s), the retreat timer (5 s) and    *)
(* the timeout of processDamage (0.3 s) cannot run out before MaxClock.    *)
(***************************************************************************)
\* performance.now() when start() is called, and the time between two
\* animation frames of a run, in time units
StartTimes == {1, 4}
FrameIntervals == {1, 3}
MaxClock == 10
MaxResets == 1
\* The shots of the game loop: at the shooter's feet or up and away.
LoopWeapons == {"bazooka", "mine", "rope"}
LoopDirections == {<<0, 1, 1>>, <<3, -4, 5>>}
LoopPowers == {60}

\* Game.update: dt = Math.min(dt, 0.05)
CapDt(dt) == Min(dt, TimeUnitsPerSecond \div 20)

\* updateProjectiles(dt) on the game g in phase ph: the game and the phase it leaves
ProjectilesUpdated(g, ph, dt) ==
    IF ph = "projectile" /\ \A i \in DOMAIN g.projectiles : ~isBlocking(g.projectiles[i])
    THEN [g |-> g, phase |-> "retreat"]
    ELSE [g |-> ProjectileLoop(g, Len(g.projectiles), dt), phase |-> ph]

\* Physics.update(dt), one koala: js/engine/Physics.js skips a dead koala
EntityUpdated(t, k, dt, file) ==
    IF file = EnginePhysics /\ ~k.isAlive THEN k ELSE updateEntity(t, k, dt, file)

\* processDamage(), the deaths: a koala without health dies
Deaths(ks) == Evaluated(
    [j \in DOMAIN ks |->
        IF ks[j].health # None /\ ks[j].health <= 0 /\ ks[j].isAlive
        THEN [ks[j] EXCEPT !.isAlive = FALSE] ELSE ks[j]])

\* Whether updateEntity ends the turn: fall damage charged to the current
\* koala, the first of the first team, while it aims
EndsTurn(t, ks, ph, dt, file) ==
    /\ file = NetworkPhysics
    /\ ph = "aiming"
    /\ ks # <<>>
    /\ UpdateEntityCharging(t, ks[1], dt, file).charged # None

\* Physics.update(dt) over the koalas ks: the current koala is updated first,
\* and where that ends the turn (ends), endTurn() runs processDamage() before
\* the others are moved
OthersUpdated(t, ks, dt, file, ends) ==
    Evaluated([j \in DOMAIN ks |->
        IF ends /\ j = 1 THEN ks[1] ELSE EntityUpdated(t, ks[j], dt, file)])

PhysicsUpdated(t, ks, dt, file, ends) ==
    OthersUpdated(t,
        IF ends THEN Deaths([ks EXCEPT ![1] = updateEntity(t, ks[1], dt, file)]) ELSE ks,
        dt, file, ends)

\* The destroyed flag of the projectile object with identity id
DestroyedFlag(g, id) ==
    IF \E i \in DOMAIN g.projectiles : g.projectiles[i].id = id
    THEN \E i \in DOMAIN g.projectiles : g.projectiles[i].id = id /\ g.projectiles[i].destroyed
    ELSE g.impactLog[id].final.destroyed

\* updateCamera(dt): what the camera follows afterwards
updateCamera(g, following) ==
    IF following # 0 /\ DestroyedFlag(g, following) THEN 0 ELSE following

\* Game.update(dt) from the game before, the game its first step left, what
\* its second step read and the game that left
TickResult(before, ph, dt, following, carvedIn, read, blasted, after) ==
    [g |-> after, phase |-> ph, following |-> updateCamera(after, following),
     log |-> [dt |-> dt, carved |-> carvedIn.imageData # before.imageData,
              bitmap |-> read, blasted |-> blasted]]

\* Game.update(dt): physics.update(dt) on the game shot that updateProjectiles left
KoalasUpdated(g, shot, dt, file, following, ends) ==
    TickResult(g, IF ends THEN "damage" ELSE shot.phase, dt, following,
            shot.g, shot.g.imageData, shot.g.koalas,
            [shot.g EXCEPT !.koalas =
                PhysicsUpdated(TerrainOf(shot.g.imageData, width, height),
                               shot.g.koalas, dt, file, ends)])

UpdateKoalas(g, shot, dt, file, following) ==
    KoalasUpdated(g, shot, dt, file, following,
                  EndsTurn(TerrainOf(shot.g.imageData, width, height),
                           shot.g.koalas, shot.phase, dt, file))

\* An update that moves the koalas before the projectiles.
ProjectilesAfter(g, shot, dt, following) ==
    TickResult(g, shot.phase, dt, following, shot.g, g.imageData, g.koalas, shot.g)

UpdatePhysicsFirst(g, ph, dt, file, following) ==
    ProjectilesAfter(g,
        ProjectilesUpdated(
            [g EXCEPT !.koalas = PhysicsUpdated(TerrainOf(g.imageData, width, height),
                                                g.koalas, dt, file, FALSE)],
            ph, dt),
        dt, following)

\* Game.update(dt), dt already capped: updateProjectiles(dt), physics.update(dt),
\* updateCamera(dt)
Update(g, ph, dt, file, following) ==
    UpdateKoalas(g, ProjectilesUpdated(g, ph, dt), dt, file, following)

\* The game and the history a tick leaves
TickLeaves(after, first, resets) ==
    /\ FrameLeaves(after.g)
    /\ phase' = after.phase
    /\ followingProjectile' = after.following
    /\ tickLog' = [dt |-> after.log.dt, first |-> first, carved |-> after.log.carved,
                   bitmap |-> after.log.bitmap, blasted |-> after.log.blasted,
                   resets |-> resets]

\* gameLoop(currentTime) with this.lastTime = from, on the game g in phase ph
gameLoop(g, ph, currentTime, from, first, resets) ==
    /\ lastTime' = currentTime
    /\ TickLeaves(Update(g, ph, CapDt(currentTime - from), physicsFile, followingProjectile),
                  first, resets)

\* The canvas terrain.generate() leaves, and the teams createTeams() places on it
Generated == [BlankCanvas(worldWidth, worldHeight) EXCEPT !.map = "fixed"]
Teams == createTeams(Generated)

\* The game as generate(), createTeams() and startTurn() leave it
Started(log) ==
    [projectiles |-> <<>>, koalas |-> Teams, canvas |-> Generated,
     imageData |-> updateCollisionMask(Generated), lastCrater |-> NoCrater,
     impactLog |-> log]

\* The game as the constructor leaves it; start() is called at one of StartTimes.
InitLoop ==
    /\ width = worldWidth
    /\ height = worldHeight
    /\ canvas = BlankCanvas(worldWidth, worldHeight)
    /\ imageData = NoImageData
    /\ lastCrater = NoCrater
    /\ NoHarness
    /\ NoPhysics
    /\ NoTwin
    /\ NoTurn
    /\ NoGrid
    /\ NoScan
    /\ followingProjectile = 0
    /\ projectiles = <<>>
    /\ koalas = <<>>
    /\ phase = "waiting"
    /\ wind = 0
    /\ impactLog = <<>>
    /\ frameDt \in FrameIntervals
    /\ physicsFile \in PhysicsFiles
    /\ lastTime = 0
    /\ clock \in StartTimes
    /\ tickLog = NoTick

\* start(): ... this.lastTime = performance.now(); this.gameLoop()
start ==
    /\ phase = "waiting"
    /\ koalas = <<>>
    /\ wind' \in Winds
    /\ gameLoop(Started(impactLog), "aiming", 0, clock, TRUE, tickLog.resets)
    /\ UNCHANGED <<width, height, frameDt, clock, physicsFile, harnessVars, physicsVars, twinVars, scanVars, turnVars, gridVars>>

\* The animation frame requested by the last gameLoop(): gameLoop(t)
animationFrame ==
    /\ koalas # <<>>
    /\ clock + frameDt <= MaxClock
    /\ clock' = clock + frameDt
    /\ gameLoop([projectiles |-> projectiles, koalas |-> koalas, canvas |-> canvas,
                 imageData |-> imageData, lastCrater |-> lastCrater,
                 impactLog |-> impactLog],
                phase, clock + frameDt, lastTime, FALSE, tickLog.resets)
    /\ UNCHANGED <<width, height, wind, frameDt, physicsFile, harnessVars, physicsVars, twinVars, scanVars, turnVars, gridVars>>

\* reset(): this.projectiles = [] takes every projectile out as it is
Dropped(log, ps) == Evaluated(
    [id \in DOMAIN log |->
        IF \E i \in DOMAIN ps : ps[i].id = id
        THEN [log[id] EXCEPT !.final = CHOOSE q \in {ps[i] : i \in DOMAIN ps} : q.id = id]
        ELSE log[id]])

\* reset(): ... this.lastTime = performance.now(); this.gameLoop()
reset ==
    /\ koalas # <<>>
    /\ tickLog.resets < MaxResets
    /\ wind' \in Winds
    /\ gameLoop(Started(Dropped(impactLog, projectiles)), "aiming", 0, clock, TRUE,
                tickLog.resets + 1)
    /\ UNCHANGED <<width, height, frameDt, clock, physicsFile, harnessVars, physicsVars, twinVars, scanVars, turnVars, gridVars>>

\* fireWeapon(angle, power) while the loop runs
fireWeaponInLoop == Fire(LoopWeapons, LoopDirections, LoopPowers)

NextLoop == start \/ animationFrame \/ fireWeaponInLoop \/ reset

SpecLoop == InitLoop /\ [][NextLoop]_vars

(***************************************************************************)
(* Two runs of the projectile loop side by side: they start from the same  *)
(* game and are fed the same firings and the same frames (dt, wind).  Each *)
(* run makes its own Projectile objects, so each draws its own             *)
(* Math.random() in the Projectile constructor.                            *)
(***************************************************************************)
TwinWeapons == {"bazooka", "grenade", "mine"}
TwinDirections == {<<0, 1, 1>>, <<3, -4, 5>>}
TwinPowers == {60}

\* Both runs as Game.start() leaves them
InitTwin ==
    /\ width = worldWidth
    /\ height = worldHeight
    /\ canvas = Generated
    /\ imageData = updateCollisionMask(canvas)
    /\ lastCrater = NoCrater
    /\ NoHarness
    /\ physicsFile = "none"
    /\ NoPhysics
    /\ NoLoop
    /\ NoScan
    /\ NoTurn
    /\ NoGrid
    /\ followingProjectile = 0
    /\ projectiles = <<>>
    /\ koalas = Teams
    /\ phase = "aiming"
    /\ wind \in Winds
    /\ frameDt \in FrameDts
    /\ impactLog = <<>>
    /\ twin = [on |-> TRUE, g |-> Started(<<>>), phase |-> "aiming", shots |-> <<>>]

\* fireWeapon(angle, power) in both runs, with the same weapon, angle and
\* power; dud and twinDud are the draws of the two Projectile constructors
fireBoth ==
    \E w \in TwinWeapons, dir \in TwinDirections, power \in TwinPowers,
       dud \in BOOLEAN, twinDud \in BOOLEAN :
        /\ phase = "aiming"
        /\ twin.phase = "aiming"
        /\ Len(impactLog) < MaxShots
        /\ dud => createWeapons[w].dudChance
        /\ twinDud => createWeapons[w].dudChance
        /\ phase' = "projectile"
        /\ projectiles' = Launch(koalas, projectiles, Len(impactLog) + 1, w, dir, power, dud)
        /\ impactLog' = Append(impactLog, NoLog)
        /\ followingProjectile' = Len(impactLog) + 1
        /\ twin' = [twin EXCEPT
                      !.g.projectiles = Launch(twin.g.koalas, twin.g.projectiles,
                                               Len(twin.g.impactLog) + 1, w, dir, power, twinDud),
                      !.g.impactLog = Append(@, NoLog),
                      !.phase = "projectile",
                      !.shots = Append(@, w)]
        /\ UNCHANGED <<koalas, wind, frameDt, terrainVars, harnessVars, physicsFile,
                       physicsVars, loopVars, scanVars, turnVars, gridVars>>

\* What a frame of both runs leaves: first and second are what
\* updateProjectiles(dt) made of either
BothLeave(first, second) ==
    /\ FrameLeaves(first.g)
    /\ phase' = first.phase
    /\ twin' = [twin EXCEPT !.g = second.g, !.phase = second.phase]

\* updateProjectiles(dt) in both runs, with the same dt and wind
frameBoth ==
    /\ BothLeave(ProjectilesUpdated(
                    [projectiles |-> projectiles, koalas |-> koalas, canvas |-> canvas,
                     imageData |-> imageData, lastCrater |-> lastCrater,
                     impactLog |-> impactLog], phase, frameDt),
                 ProjectilesUpdated(twin.g, twin.phase, frameDt))
    /\ UNCHANGED <<width, height, wind, frameDt, harnessVars, followingProjectile,
                   physicsFile, physicsVars, loopVars, scanVars, turnVars, gridVars>>

NextTwin == fireBoth \/ frameBoth

SpecTwin == InitTwin /\ [][NextTwin]_vars

(***************************************************************************)
(* resolveTerrainCollision(entity) statement by statement, on the Terrain  *)
(* of TestWidth x TestHeight pixels: scan.pc is the statement the call has *)
(* reached and scan.cursor the variable its loop moves (groundY, ceilingY, *)
(* wallX), in position units.                                              *)
(***************************************************************************)
\* Positions in pixels, inside and outside the world, and the parts of a pixel
\* added to them; the sizes and the vertical velocities of the entity
ScanColumns == {-3, 0, 5, TestWidth - 1, TestWidth + 2}
ScanRows == {-2, 4, 9, TestHeight - 1, TestHeight + 3}
ScanFractions == {0, UnitsPerPixel \div 2}
ScanSizes == {<<24, 30>>, <<4, 6>>}
ScanVelocities == {-100, 100}

\* An entity handed to resolveTerrainCollision
InitResolve ==
    /\ width = TestWidth
    /\ height = TestHeight
    /\ canvas \in {[BlankCanvas(TestWidth, TestHeight) EXCEPT !.map = m] : m \in Maps}
    /\ imageData = updateCollisionMask(canvas)
    /\ lastCrater = NoCrater
    /\ NoHarness
    /\ NoGame
    /\ NoLoop
    /\ NoTwin
    /\ NoTurn
    /\ NoGrid
    /\ landing = NoLanding
    /\ physicsFile \in PhysicsFiles
    /\ \E x \in ScanColumns, y \in ScanRows, f \in ScanFractions, size \in ScanSizes,
          v \in ScanVelocities :
          entity = [Koala(Pixels(x) + f, Pixels(y) + f, 1) EXCEPT
                       !.width = size[1], !.height = size[2], !.vx = v, !.vy = v]
    /\ scan = [pc |-> "feet", cursor |-> 0, from |-> 0, e0 |-> entity]

\* A scan that does not move its cursor.
AdvanceStuck(cursor, d) == cursor

\* groundY--, ceilingY++, wallX--, wallX++
Advance(cursor, d) == cursor + d

\* The call goes on with the statement pc
GoOn(pc) == scan' = [scan EXCEPT !.pc = pc]

\* The call enters the loop pc with its variable at cursor
Enter(pc, cursor) == scan' = [scan EXCEPT !.pc = pc, !.cursor = cursor, !.from = cursor]

\* The feet: entity.onGround = false, then the probes around footY
FeetFound(e, hits) ==
    /\ entity' = e
    /\ IF hits = {} THEN GoOn("head")
       ELSE IF physicsFile = NetworkPhysics /\ e.vy < 0 THEN GoOn("done")
       ELSE Enter("walkUp",
                  Pixels(PixelOf(e.y + HalfHeight(e)
                                 + Pixels(CHOOSE o \in hits : \A other \in hits : o <= other))))

\* const searchDown = entity.onGround ? 10 : 3, and the probes
FeetSearched(e) ==
    FeetFound(e, FeetHits(TerrainOf(imageData, width, height), e,
                          IF e.onGround THEN 10 ELSE 3))

probeFeet ==
    /\ scan.pc = "feet"
    /\ FeetSearched([entity EXCEPT !.onGround = FALSE])
    /\ UNCHANGED <<physicsFile, landing, terrainVars, harnessVars, gameVars,
                   followingProjectile, loopVars, twinVars, turnVars, gridVars>>

\* while (groundY > 0 && terrain.checkCollision(entity.x, groundY)) groundY--
\* and the snap that follows it
stepUp ==
    /\ scan.pc = "walkUp"
    /\ IF scan.cursor > 0 /\ Probe(TerrainOf(imageData, width, height), entity.x, scan.cursor)
       THEN /\ scan' = [scan EXCEPT !.cursor = Advance(@, 0 - Pixels(1))]
            /\ UNCHANGED entity
       ELSE /\ entity' = [entity EXCEPT !.y = scan.cursor + Pixels(1) - HalfHeight(entity),
                                        !.vy = 0, !.onGround = TRUE]
            /\ GoOn("head")
    /\ UNCHANGED <<physicsFile, landing, terrainVars, harnessVars, gameVars,
                   followingProjectile, loopVars, twinVars, turnVars, gridVars>>

\* The head: if (terrain.checkCollision(entity.x, headY))
probeHead ==
    /\ scan.pc = "head"
    /\ IF Probe(TerrainOf(imageData, width, height), entity.x, entity.y - HalfHeight(entity))
       THEN Enter("walkDown", entity.y - HalfHeight(entity))
       ELSE GoOn("right")
    /\ UNCHANGED <<physicsFile, physicsVars, terrainVars, harnessVars, gameVars,
                   followingProjectile, loopVars, twinVars, turnVars, gridVars>>

\* while (ceilingY < worldHeight && terrain.checkCollision(entity.x, ceilingY)) ceilingY++
stepDown ==
    /\ scan.pc = "walkDown"
    /\ IF scan.cursor < Pixels(height)
          /\ Probe(TerrainOf(imageData, width, height), entity.x, scan.cursor)
       THEN /\ scan' = [scan EXCEPT !.cursor = Advance(@, Pixels(1))]
            /\ UNCHANGED entity
       ELSE /\ entity' = [entity EXCEPT !.y = scan.cursor + HalfHeight(entity),
                                        !.vy = Abs(entity.vy) \div 2]
            /\ GoOn("right")
    /\ UNCHANGED <<physicsFile, landing, terrainVars, harnessVars, gameVars,
                   followingProjectile, loopVars, twinVars, turnVars, gridVars>>

\* The right side: if (terrain.checkCollision(entity.x + entity.width / 2, sideCheckY))
probeRight ==
    /\ scan.pc = "right"
    /\ IF Probe(TerrainOf(imageData, width, height), entity.x + HalfWidth(entity), entity.y)
       THEN Enter("walkLeft", entity.x + HalfWidth(entity))
       ELSE GoOn("left")
    /\ UNCHANGED <<physicsFile, physicsVars, terrainVars, harnessVars, gameVars,
                   followingProjectile, loopVars, twinVars, turnVars, gridVars>>

\* while (wallX > 0 && terrain.checkCollision(wallX, sideCheckY)) wallX--
stepLeft ==
    /\ scan.pc = "walkLeft"
    /\ IF scan.cursor > 0 /\ Probe(TerrainOf(imageData, width, height), scan.cursor, entity.y)
       THEN /\ scan' = [scan EXCEPT !.cursor = Advance(@, 0 - Pixels(1))]
            /\ UNCHANGED entity
       ELSE /\ entity' = [entity EXCEPT !.x = scan.cursor - HalfWidth(entity),
                                        !.vx = Trunc((0 - entity.vx) * wallBounciness, 100)]
            /\ GoOn("left")
    /\ UNCHANGED <<physicsFile, landing, terrainVars, harnessVars, gameVars,
                   followingProjectile, loopVars, twinVars, turnVars, gridVars>>

\* The left side: if (terrain.checkCollision(entity.x - entity.width / 2, sideCheckY))
probeLeft ==
    /\ scan.pc = "left"
    /\ IF Probe(TerrainOf(imageData, width, height), entity.x - HalfWidth(entity), entity.y)
       THEN Enter("walkRight", entity.x - HalfWidth(entity))
       ELSE GoOn("done")
    /\ UNCHANGED <<physicsFile, physicsVars, terrainVars, harnessVars, gameVars,
                   followingProjectile, loopVars, twinVars, turnVars, gridVars>>

\* while (wallX < worldWidth && terrain.checkCollision(wallX, sideCheckY)) wallX++
stepRight ==
    /\ scan.pc = "walkRight"
    /\ IF scan.cursor < Pixels(width)
          /\ Probe(TerrainOf(imageData, width, height), scan.cursor, entity.y)
       THEN /\ scan' = [scan EXCEPT !.cursor = Advance(@, Pixels(1))]
            /\ UNCHANGED entity
       ELSE /\ entity' = [entity EXCEPT !.x = scan.cursor + HalfWidth(entity),
                                        !.vx = Trunc((0 - entity.vx) * wallBounciness, 100)]
            /\ GoOn("done")
    /\ UNCHANGED <<physicsFile, landing, terrainVars, harnessVars, gameVars,
                   followingProjectile, loopVars, twinVars, turnVars, gridVars>>

NextResolve ==
    \/ probeFeet \/ stepUp \/ probeHead \/ stepDown
    \/ probeRight \/ stepLeft \/ probeLeft \/ stepRight

SpecResolve == InitResolve /\ [][NextResolve]_vars

\* The call runs on its own thread of control: a statement that can run does.
SpecResolveFair == SpecResolve /\ WF_vars(NextResolve)

(***************************************************************************)
(* Claims about the terrain, checked under SpecTerrain.                    *)
(***************************************************************************)
Built == imageData # NoImageData

Columns == 0..(width - 1)
Rows == 0..(height - 1)

\* Query arguments: integers around the canvas, values between two pixels, NaN.
QueryXs == {Num(n) : n \in -2..(width + 1)} \cup {<<1, 2>>, <<-1, 2>>, <<2 * width - 1, 2>>, NaN}
QueryYs == {Num(n) : n \in -2..(height + 1)} \cup {<<1, 2>>, <<-1, 2>>, <<2 * height - 1, 2>>, NaN}

Solid(x, y) == checkCollision(Num(x), Num(y))

Dist2(x, y, c) == (x - c.cx) * (x - c.cx) + (y - c.cy) * (y - c.cy)

\* C5: after createCrater(cx, cy, r) every in-bounds pixel within 0.7 r of the
\* centre is air, and every pixel farther than r keeps the solidity it had.
C5_CraterCarves ==
    lastCrater.r > 0 =>
        \A x \in Columns, y \in Rows :
            /\ 100 * Dist2(x, y, lastCrater) <= 49 * lastCrater.r * lastCrater.r
                  => ~Solid(x, y)
            /\ Dist2(x, y, lastCrater) > lastCrater.r * lastCrater.r
                  => Solid(x, y) =
                        CheckCollisionIn(lastCrater.before, width, height, Num(x), Num(y))

\* a crater has turned a solid pixel within 0.7 r into air and has left a solid
\* pixel outside r
C5_Witness ==
    /\ lastCrater.r > 0
    /\ \E x \in Columns, y \in Rows :
          /\ 100 * Dist2(x, y, lastCrater) <= 49 * lastCrater.r * lastCrater.r
          /\ CheckCollisionIn(lastCrater.before, width, height, Num(x), Num(y))
          /\ ~Solid(x, y)
    /\ \E x \in Columns, y \in Rows :
          Dist2(x, y, lastCrater) > lastCrater.r * lastCrater.r /\ Solid(x, y)

\* C6: whenever a collision query can run, the bitmap is the binary threshold
\* of the current visual buffer: every mask alpha is 0 or 255 and
\* checkCollision is true exactly where the visual alpha is >= 128.
C6_MaskIsThreshold ==
    Built =>
        \A x \in Columns, y \in Rows :
            /\ MaskAlpha(imageData, x, y) \in {0, 255}
            /\ Solid(x, y) <=> (VisualAlpha(canvas, x, y) >= 128)

\* a carved map with partly transparent pixels on both sides of the threshold
C6_Witness ==
    /\ Built
    /\ Len(canvas.craters) > 0
    /\ \E x \in Columns, y \in Rows :
          VisualAlpha(canvas, x, y) \in 128..254 /\ Solid(x, y)
    /\ \E x \in Columns, y \in Rows :
          VisualAlpha(canvas, x, y) \in 1..127 /\ ~Solid(x, y)

\* C7: checkCollision is total: it never throws, it is true whenever
\* floor(y) >= height, false when floor(y) < 0 or floor(x) is outside
\* [0, width) with floor(y) < height, and the bitmap value otherwise.
C7_CheckCollisionTotal ==
    Built =>
        \A x \in QueryXs, y \in QueryYs :
            LET fx == MathFloor(x)
                fy == MathFloor(y)
                r == checkCollision(x, y)
            IN  /\ ~CheckCollisionThrows(imageData, width, height, x, y)
                /\ r \in BOOLEAN
                /\ Ge(fy, height) => r
                /\ (~IsNaN(fy) /\ ~IsNaN(fx) /\ (fy[1] < 0 \/ ((fx[1] < 0 \/ fx[1] >= width) /\ fy[1] < height)))
                      => ~r
                /\ (~IsNaN(fy) /\ ~IsNaN(fx) /\ fx[1] \in Columns /\ fy[1] \in Rows)
                      => r = (MaskAlpha(imageData, fx[1], fy[1]) = 255)

\* a bitmap on which the queries give every kind of answer
C7_Witness ==
    /\ Built
    /\ Len(canvas.craters) > 0
    /\ checkCollision(Num(-1), Num(height))
    /\ ~checkCollision(Num(width), Num(height - 1))
    /\ \E x \in Columns, y \in Rows : Solid(x, y) /\ checkCollision(<<2 * x + 1, 2>>, <<2 * y + 1, 2>>)
    /\ \E x \in Columns, y \in Rows : ~Solid(x, y)

\* Row g of column x is an air-to-solid transition of the visual buffer.
Transition(x, g) ==
    /\ VisualAlpha(canvas, x, g) >= 128
    /\ g > 0 => VisualAlpha(canvas, x, g - 1) < 128

\* Row g is a transition getVisualGroundY counts: above the last ten rows, and
\* either the first solid row of the column or under at least three air rows.
Counted(x, g) ==
    /\ g < height - 10
    /\ Transition(x, g)
    /\ \/ \A k \in 0..(g - 1) : VisualAlpha(canvas, x, k) < 128
       \/ g >= 3 /\ \A k \in (g - 3)..(g - 1) : VisualAlpha(canvas, x, k) < 128

\* the least element of a non-empty set of rows, height for the empty set
FirstRow(S) == IF S = {} THEN height ELSE CHOOSE g \in S : \A k \in S : g <= k

GroundXs == {Num(n) : n \in -1..width} \cup {<<1, 2>>, <<3, 2>>}
GroundYs == -1..(height + 1)

\* C8 as stated: getGroundBelow(x, y) is the first air-to-solid transition at or
\* below y in the column, height when there is none; getGroundY(x) likewise from
\* the top.
C8_FirstTransition ==
    Built =>
        \A x \in GroundXs :
            LET fx == MathFloor(x)[1]
                all == IF fx \in Columns THEN {g \in Rows : Transition(fx, g)} ELSE {}
            IN  /\ getGroundY(x, 0) = FirstRow(all)
                /\ \A y \in GroundYs : getGroundBelow(x, y) = FirstRow({g \in all : g >= y})

\* Row g of column fx is a solid pixel of the bitmap with air directly above it.
SolidUnderAir(fx, g) ==
    /\ fx \in Columns
    /\ Solid(fx, g)
    /\ ~checkCollision(Num(fx), Num(g - 1))

\* C8 amended: getGroundBelow(x, y) is the first transition at or below y among
\* those getVisualGroundY counts, height when there is none; getGroundY(x)
\* likewise from the top; a returned row below height is solid under air.
C8_FirstCountedTransition ==
    Built =>
        \A x \in GroundXs :
            LET fx == MathFloor(x)[1]
                all == IF fx \in Columns THEN {g \in Rows : Counted(fx, g)} ELSE {}
                top == getGroundY(x, 0)
            IN  /\ top = FirstRow(all)
                /\ top < height => SolidUnderAir(fx, top)
                /\ \A y \in GroundYs :
                      LET below == getGroundBelow(x, y)
                      IN  /\ below = FirstRow({g \in all : g >= y})
                          /\ below < height => SolidUnderAir(fx, below)

\* a carved column in which getGroundBelow passes over a transition it does not
\* count and returns a later one, and a column whose only ground lies in the
\* last ten rows
C8_Witness ==
    /\ Built
    /\ Len(canvas.craters) > 0
    /\ \E x \in Columns, y \in Rows :
          /\ getGroundBelow(Num(x), y) < height
          /\ \E g \in y..(getGroundBelow(Num(x), y) - 1) : Transition(x, g)
    /\ \E x \in Columns :
          getGroundY(Num(x), 0) = height /\ \E g \in Rows : Transition(x, g)

NormalXs == {-6, 0, width \div 2, width + 6}
NormalYs == {y \in -6..(height + 6) : y % 3 = 0}

\* C9: getSurfaceNormal returns exactly (0, -1) whenever the sum over the solid
\* samples is the zero vector, and no component is ever NaN.
C9_NormalFallback ==
    Built =>
        \A x \in NormalXs, y \in NormalYs :
            LET n == getSurfaceNormal(x, y)
                s == NormalSum(imageData, width, height, x, y)
            IN  /\ ~IsNaN(n.x) /\ ~IsNaN(n.y)
                /\ (s.nx = 0 /\ s.ny = 0) => (n.x = Num(0) /\ n.y = Num(-1))

SolidSamples(x, y) ==
    Cardinality({o \in (-5..5) \X (-5..5) : Solid(x + o[1], y + o[2])})

\* one point with no solid sample, one with every sample solid inside the
\* canvas, and one on a surface
C9_Witness ==
    /\ Built
    /\ \E x \in NormalXs, y \in NormalYs : SolidSamples(x, y) = 0
    /\ \E x \in NormalXs, y \in Rows : SolidSamples(x, y) = 121 /\ y + 5 < height
    /\ \E x \in NormalXs, y \in NormalYs :
          LET s == NormalSum(imageData, width, height, x, y) IN s.nx # 0 /\ s.ny # 0

LosPoints == {<<1, 1>>, <<1, height - 2>>, <<width \div 2, height \div 2>>,
              <<width - 2, 2>>, <<width - 1, height - 1>>, <<3, 5>>}

\* C10: lineOfSight is false exactly when one of its sample points, both end
\* points included, is solid; also for two coinciding end points.
C10_LineOfSight ==
    Built =>
        \A p \in LosPoints, q \in LosPoints :
            LET steps == CeilHypotDiv(q[1] - p[1], q[2] - p[2], 2)
                samples == {<<Num(p[1]), Num(p[2])>>, <<Num(q[1]), Num(q[2])>>}
                           \cup {LineOfSightSample(p[1], p[2], q[1], q[2], steps, i) : i \in 1..(steps - 1)}
            IN  lineOfSight(p[1], p[2], q[1], q[2])
                    = ~(\E sm \in samples : checkCollision(sm[1], sm[2]))

(***************************************************************************)
(* Claims about the projectile, checked under SpecProjectile.              *)
(***************************************************************************)
\* C2: for a stationary proximity projectile with isDud, the update() calls
\* after isTriggered became true return 'dud' on the first call and false on
\* every later one, whatever the dt; never true.
C2_DudSignalsOnce ==
    (proj.triggeredByProximity /\ proj.stationary /\ proj.isDud /\ proj.isTriggered) =>
        /\ lastReturn # "true"
        /\ calls = 1 => lastReturn = "dud"
        /\ calls >= 2 => lastReturn = "false"

\* a triggered dud after its first and after its third update() call
C2_Witness ==
    /\ proj.triggeredByProximity /\ proj.stationary /\ proj.isDud /\ proj.isTriggered
    /\ calls = MaxCalls
    /\ lastReturn = "false"
    /\ proj.dudActivated

\* What C3 says of the projectile p: nothing counts before the first
\* onTerrainHit(); from it on timeOnGround is the sum of the dt, update()
\* returns true on the first frame that brings it to the timer, false before.
TimerCountsFromFirstHit(p) ==
    /\ contacts = 0 => (p.timeOnGround = 0 /\ lastReturn \in {"none", "false"})
    /\ contacts > 0 =>
          /\ p.timeOnGround = sinceContact.sum
          /\ (lastReturn = "true") <=> (sinceContact.sum >= p.timer)
          /\ lastReturn = "true" => sinceContact.sum - sinceContact.last < p.timer

\* C3 as stated: every projectile with a timer and timerStartsOnThrow = false
\* counts from its first terrain hit.
C3_TimerFromFirstHit ==
    (proj.timer # None /\ ~proj.timerStartsOnThrow) => TimerCountsFromFirstHit(proj)

\* C3 amended: every such projectile that is not triggered by proximity.
C3_TimerFromFirstHitUnlessProximity ==
    (proj.timer # None /\ ~proj.timerStartsOnThrow /\ ~proj.triggeredByProximity)
        => TimerCountsFromFirstHit(proj)

\* a grenade whose count started at its first hit has run out after a second hit
C3_Witness ==
    /\ proj.timer # None /\ ~proj.timerStartsOnThrow /\ ~proj.triggeredByProximity
    /\ contacts = MaxContacts
    /\ lastReturn = "true"
    /\ proj.timeOnGround >= proj.timer

(***************************************************************************)
(* Claims about the projectile loop, checked under SpecGame.               *)
(***************************************************************************)
Fired == DOMAIN impactLog

Active(id) == \E i \in DOMAIN projectiles : projectiles[i].id = id

\* The projectile of shot id as it is now: in the loop, or as removeProjectile left it.
Latest(id) ==
    IF Active(id) THEN projectiles[CHOOSE i \in DOMAIN projectiles : projectiles[i].id = id]
    ELSE impactLog[id].final

\* C1: a mine created as a dud is never detonated or removed by its own
\* trigger: once a koala has triggered it, no handleProjectileImpact call and
\* no crater is made for it, its destroyed flag stays unset and it stays in
\* Game.projectiles.
C1_DudMineStays ==
    \A id \in Fired :
        (Latest(id).isDud /\ Latest(id).isTriggered) =>
            /\ impactLog[id].impacts = 0
            /\ impactLog[id].craters = 0
            /\ ~impactLog[id].removed
            /\ ~Latest(id).destroyed
            /\ Active(id)

\* A projectile that does not bounce and is neither mine nor rope, and that a
\* frame has found with a sample of its path inside the terrain.
HitsTerrainDirectly(id) ==
    /\ impactLog[id].pathInTerrain
    /\ ~Latest(id).bounces
    /\ Latest(id).type \notin {"mine", "rope"}

\* Removed for good in the frame of the hit, after one handleProjectileImpact call.
ResolvedOnce(id) ==
    /\ impactLog[id].impacts = 1
    /\ impactLog[id].removed
    /\ ~Active(id)
    /\ impactLog[id].final.destroyed
    /\ ~impactLog[id].handledAfterRemoval

KeptFlying(id) == impactLog[id].bounced /\ ~impactLog[id].left.stationary

\* Component c of the velocity after a bounce is (v - 2 (v.n) n) * bounciness,
\* n the unit vector of the sum (nx, ny): within the two roundings of the
\* integer velocity.
ReflectedComponent(after, v, c, b) ==
    LET len2 == b.normal.len2
        exact100 == b.hit.bounciness * (v * len2 - 2 * (b.hit.vx * b.normal.nx + b.hit.vy * b.normal.ny) * c)
    IN  /\ 100 * len2 * after <= exact100
        /\ exact100 < 100 * len2 * (after + 1) + len2 * b.hit.bounciness

\* C11: a bouncing projectile that hits terrain with velocity v where the
\* surface normal is n and keeps flying leaves with (v - 2(v.n)n) * bounciness
\* and one more bounce counted; (0, 300) on n = (0, -1) with bounciness 0.6
\* leaves with (0, -180).
C11_BounceReflects ==
    /\ \A id \in Fired :
          KeptFlying(id) =>
              LET b == impactLog[id]
              IN  /\ ReflectedComponent(b.left.vx, b.hit.vx, b.normal.nx, b)
                  /\ ReflectedComponent(b.left.vy, b.hit.vy, b.normal.ny, b)
                  /\ b.left.bounceCount = b.hit.bounceCount + 1
    /\ \A k \in 1..11 :
          LET p == [NoProjectile EXCEPT !.vx = 0, !.vy = 300, !.bounces = TRUE, !.bounciness = 60]
              q == BounceOrSettle(p, NormalOf([nx |-> 0, ny |-> -k * 11]))
          IN  q.vx = 0 /\ q.vy = -180 /\ q.bounceCount = 1 /\ ~q.stationary

\* a grenade has bounced off a slope: the normal has two components and the
\* velocity it left with differs in both from the one it came with
C11_Witness ==
    \E id \in Fired :
        /\ KeptFlying(id)
        /\ impactLog[id].normal.nx # 0 /\ impactLog[id].normal.ny # 0
        /\ impactLog[id].left.vx # impactLog[id].hit.vx
        /\ impactLog[id].left.vy # impactLog[id].hit.vy
        /\ impactLog[id].left.bounceCount >= 2

(***************************************************************************)
(* Claims about the koalas' physics, checked under SpecPhysics.            *)
(***************************************************************************)
Touched == landing.file # "none"

\* C12: a living koala that touches down after falling f takes
\* floor((f - 260) / 5) damage if f > 260 px and none if f <= 260 px
\* (300 gives 8, 260 gives 0), and its fallDistance is 0 afterwards.
C12_LandingDamage ==
    /\ landingDamage(Pixels(300)) = 8
    /\ landingDamage(Pixels(260)) = 0
    /\ (Touched /\ landing.alive) =>
          /\ landing.charged = IF landing.fell > Pixels(260)
                               THEN (landing.fell - Pixels(260)) \div Pixels(5)
                               ELSE 0
          /\ landing.left = 0

\* The same, for the Physics class of js/network/NetworkManager.js only.
C12_LandingDamageNetwork == physicsFile = NetworkPhysics => C12_LandingDamage

C12_Witness ==
    /\ Touched /\ landing.alive /\ landing.file = NetworkPhysics
    /\ landing.fell > Pixels(260) /\ landing.charged > 0 /\ entity.health < 100

C12_WitnessEngine ==
    /\ Touched /\ landing.alive /\ landing.file = EnginePhysics
    /\ landing.fell > Pixels(260) /\ landing.charged = 0 /\ entity.health = 100

(***************************************************************************)
(* Claims about detonations, checked under SpecGame.                       *)
(***************************************************************************)
Detonated == {id \in Fired : impactLog[id].impacts > 0}

\* n / d rounded to the nearest whole number, halves up
Rounded(n, d) == (2 * n + d) \div (2 * d)

\* Koala b, a before and after the blast of projectile p: inside the radius.
InBlast(b, p) ==
    LET R == Pixels(p.weapon.explosionRadius)
        dx == b.x - p.x
        dy == b.y - p.y
    IN  Abs(dx) < R /\ Abs(dy) < R /\ dx * dx + dy * dy < R * R

\* Damage round(damage * (1 - d / R)), and an impulse of knockback * (1 - d / R)
\* along the line from the impact point to the koala, each component to 1 px/s.
FalloffApplied(b, a, p) ==
    LET R == Pixels(p.weapon.explosionRadius)
        dx == b.x - p.x
        dy == b.y - p.y
        d == ISqrt(dx * dx + dy * dy)
        impulse == (p.weapon.knockback * (R - d)) \div R
    IN  /\ a.health = Max(0, b.health - Rounded(p.weapon.damage * (R - d), R))
        /\ Abs((a.vx - b.vx) * d - dx * impulse) <= d
        /\ Abs((a.vy - b.vy) * d - dy * impulse) <= d
        /\ d = 0 => a.vx - b.vx = impulse /\ a.vy = b.vy
        /\ a = [b EXCEPT !.health = a.health, !.vx = a.vx, !.vy = a.vy]

\* C13: a detonation with explosionRadius R > 0 gives each living koala at
\* distance d < R round(damage * (1 - d / R)) damage and an impulse of
\* knockback * (1 - d / R) away from the impact point; koalas at d >= R and
\* dead koalas get neither, and a weapon without a positive radius carves
\* no crater.
C13_BlastFalloff ==
    \A id \in Detonated :
        LET log == impactLog[id]
            p == log.detonated
        IN  IF p.weapon.explosionRadius > 0
            THEN \A j \in DOMAIN log.before :
                    LET b == log.before[j]
                        dead == [b EXCEPT !.isAlive = FALSE]
                    IN  /\ IF b.isAlive /\ InBlast(b, p)
                           THEN FalloffApplied(b, log.blasted[j], p)
                           ELSE log.blasted[j] = b
                        /\ Blast(dead, p) = dead
            ELSE log.craters = 0 /\ log.blasted = log.before

C13_Witness ==
    \E id \in Detonated :
        LET log == impactLog[id]
            p == log.detonated
        IN  /\ p.weapon.explosionRadius > 0
            /\ \E j \in DOMAIN log.before :
                  /\ InBlast(log.before[j], p)
                  /\ log.blasted[j].health < log.before[j].health
                  /\ log.blasted[j].health > log.before[j].health - p.weapon.damage
                  /\ log.blasted[j].vx # log.before[j].vx
                  /\ log.blasted[j].vy # log.before[j].vy
            /\ \E j \in DOMAIN log.before : ~InBlast(log.before[j], p)

DirectHits == {id \in Detonated : impactLog[id].direct # 0}

\* C14: the koala hit directly takes weapon.directDamage on top of the blast
\* whenever the weapon defines directDamage, 0 included, and weapon.damage
\* only where it does not.
C14_DirectDamage ==
    \A id \in DirectHits :
        LET log == impactLog[id]
            weapon == log.detonated.weapon
            bonus == IF weapon.directDamage # None THEN weapon.directDamage ELSE weapon.damage
        IN  log.after[log.direct] = takeDamage(log.blasted[log.direct], bonus)

\* A direct hit of a weapon whose directDamage is 0.
C14_ZeroDirectDamageHit ==
    \E id \in DirectHits :
        /\ impactLog[id].detonated.weapon.directDamage = 0
        /\ impactLog[id].blasted[impactLog[id].direct].health > 0

(***************************************************************************)
(* Claims about the game loop, checked under SpecLoop.                     *)
(***************************************************************************)
\* The terrain as the bitmap of the present state, and as the bitmap before
\* the last crater
TerrainNow == TerrainOf(imageData, width, height)
TerrainBeforeCrater == TerrainOf(lastCrater.before, width, height)

\* Whether the feet of koala k would find ground in the terrain t after its move
WouldStand(t, k, dt) ==
    FeetHits(t, [Integrate(k, dt) EXCEPT !.onGround = FALSE], 3) # {}

\* C15: in every tick the bitmap that the koalas' physics reads is the bitmap
\* the tick's projectiles left, craters of that tick included, and the koalas
\* the tick leaves are the koalas as its projectiles left them, moved and
\* resolved against that bitmap.
C15_ProjectilesBeforePhysics ==
    (tickLog.dt # None) =>
        /\ tickLog.bitmap = imageData
        /\ \E ends \in BOOLEAN :
              koalas = PhysicsUpdated(TerrainNow, tickLog.blasted, tickLog.dt,
                                      physicsFile, ends)

\* A tick carved a crater under a living koala: the bitmap before the crater
\* would have held its feet, and the tick leaves it in the air.
C15_Witness ==
    /\ tickLog.dt # None
    /\ tickLog.carved
    /\ \E j \in DOMAIN koalas :
          /\ koalas[j].isAlive
          /\ WouldStand(TerrainBeforeCrater, tickLog.blasted[j], tickLog.dt)
          /\ ~WouldStand(TerrainNow, tickLog.blasted[j], tickLog.dt)
          /\ ~koalas[j].onGround

Ticked == tickLog.dt # None

\* C16: every dt the loop hands to updateProjectiles and to physics.update
\* is between 0 and 0.05 s, on the first tick after start() or reset() too.
C16_DtBounded == Ticked => 0 <= tickLog.dt /\ tickLog.dt <= TimeUnitsPerSecond \div 20

\* The same for the ticks of the animation frames only.
C16_FrameDtBounded ==
    (Ticked /\ ~tickLog.first) => 0 <= tickLog.dt /\ tickLog.dt <= TimeUnitsPerSecond \div 20

C16_FrameCapped == Ticked /\ ~tickLog.first /\ frameDt > tickLog.dt /\ projectiles # <<>>


\* The game of the present state
PresentGame ==
    [projectiles |-> projectiles, koalas |-> koalas, canvas |-> canvas,
     imageData |-> imageData, lastCrater |-> lastCrater, impactLog |-> impactLog]

\* Whether the projectile object with identity id is in this.projectiles
InCollection(id) == \E i \in DOMAIN projectiles : projectiles[i].id = id

\* The flag of every projectile object tells whether it left the collection,
\* and the camera follows no projectile that left it.
FlagTellsGone ==
    /\ \A id \in DOMAIN impactLog : DestroyedFlag(PresentGame, id) <=> ~InCollection(id)
    /\ followingProjectile # 0 => InCollection(followingProjectile)

\* C18: a projectile object has destroyed = true exactly when it is no longer
\* in the active collection, whatever took it out (detonation, rope hit, leaving
\* the world, reset()), so the camera never keeps following a projectile that
\* is gone.
C18_DestroyedIffGone == (tickLog.dt # None) => FlagTellsGone

\* The same as long as reset() has not run.
C18_DestroyedIffGoneUntilReset == (tickLog.dt # None /\ tickLog.resets = 0) => FlagTellsGone

\* A followed projectile was taken out by update() and the camera let go of it.
C18_CameraLetGo ==
    /\ tickLog.dt # None
    /\ tickLog.resets = 0
    /\ followingProjectile = 0
    /\ \E id \in DOMAIN impactLog : ~InCollection(id) /\ impactLog[id].removed

(***************************************************************************)
(* Claims about the ray march, checked under SpecMarch.                    *)
(***************************************************************************)
\* The projectile p0 after the physics step and update() of a frame
Integrated(p0) ==
    update(IF ~p0.stationary THEN updateProjectile(p0, frameDt, wind) ELSE p0, frameDt)

\* The far face of the wall, in position units
WallRight == Pixels(WallLeft + WallThickness(canvas.map))

\* The path of the flying projectile p0 in this frame crosses the whole wall,
\* which is intact, and the frame marches it
CrossesWall(p0) ==
    /\ canvas.map \in WallMaps
    /\ canvas.craters = <<>>
    /\ ~p0.stationary
    /\ Integrated(p0).ret = "false"
    /\ ~Integrated(p0).p.stationary
    /\ p0.x < Pixels(WallLeft)
    /\ Integrated(p0).p.x >= WallRight

\* The samples of a path of (dx, dy) position units are at most 4 px apart
SamplesWithin4(dx, dy) ==
    dx * dx + dy * dy
        <= Pixels(4) * Pixels(4) * MarchSteps(0, 0, dx, dy) * MarchSteps(0, 0, dx, dy)

\* Paths of up to 100 px, the way of 2000 px/s in 0.05 s: the samples are at
\* most 4 px apart and the last one is the end of the path.
MarchPitch ==
    \A dx \in {0, 1, 159, 160, 161, 1000, 2400, 3999, 4000},
       dy \in {-4000, -2400, -161, -160, 0, 7, 320, 4000} :
        /\ dx * dx + dy * dy <= Pixels(100) * Pixels(100) => SamplesWithin4(dx, dy)
        /\ MarchSample(5, 5 + dx, MarchSteps(0, 0, dx, dy), MarchSteps(0, 0, dx, dy)) = 5 + dx
        /\ MarchSample(9, 9 + dy, MarchSteps(0, 0, dx, dy), MarchSteps(0, 0, dx, dy)) = 9 + dy

\* The frame found terrain on the path of the projectile with identity id
DetectedNext(id) == impactLog'[id].pathInTerrain

\* The frame leaves the projectile with identity id in flight or at rest
\* beyond the far face of the wall
BeyondWallNext(id) ==
    \E j \in DOMAIN projectiles' :
        projectiles'[j].id = id /\ projectiles'[j].x >= WallRight

\* C17: in a frame of at most 0.05 s the terrain samples of a projectile's
\* path are at most 4 px apart and end at the position after integration, so
\* a wall at least 4 px thick that the path crosses is detected in that frame
\* and the projectile does not end the frame on the far side of it.
C17_WallStops ==
    [][/\ MarchPitch
       /\ \A i \in DOMAIN projectiles :
             CrossesWall(projectiles[i]) =>
                 /\ DetectedNext(projectiles[i].id)
                 /\ ~BeyondWallNext(projectiles[i].id)]_vars

\* The detection alone: a wall the path crosses is found in that frame.
C17_WallDetected ==
    [][/\ MarchPitch
       /\ \A i \in DOMAIN projectiles :
             CrossesWall(projectiles[i]) => DetectedNext(projectiles[i].id)]_vars

\* A shot whose path crossed the wall in one frame and was stopped in it.
C17_ExplodedInWall ==
    \E id \in DOMAIN impactLog :
        /\ impactLog[id].removed
        /\ impactLog[id].pathInTerrain
        /\ impactLog[id].final.x >= Pixels(WallLeft)
        /\ impactLog[id].final.x < WallRight

(***************************************************************************)
(* Claims about two runs, checked under SpecTwin.                          *)
(***************************************************************************)
\* The two runs are in the same state: projectiles, terrain, koalas, phase
\* and what each projectile has done so far, detonations included
SameRuns ==
    /\ twin.g.projectiles = projectiles
    /\ twin.g.canvas = canvas
    /\ twin.g.imageData = imageData
    /\ twin.g.koalas = koalas
    /\ twin.g.impactLog = impactLog
    /\ twin.phase = phase

\* C19: two runs that start from the same terrain, koalas and projectiles and
\* are fed the same firings and the same (dt, wind) frames have the same
\* projectile states, the same detonation frames and the same terrain.
C19_Deterministic == twin.on => SameRuns

\* The same for runs in which no weapon with a dud chance was fired.
C19_DeterministicWithoutDuds ==
    (twin.on /\ \A i \in DOMAIN twin.shots : ~createWeapons[twin.shots[i]].dudChance)
        => SameRuns

\* A shot was fired, detonated in both runs and left both with the same terrain.
C19_SameDetonation ==
    /\ twin.on
    /\ SameRuns
    /\ \E id \in DOMAIN impactLog : impactLog[id].impacts > 0 /\ impactLog[id].craters > 0

\* One run carved a crater that the other did not.
C19_TerrainsDiffer == twin.on /\ twin.g.imageData # imageData

(***************************************************************************)
(* Claims about resolveTerrainCollision, checked under SpecResolveFair.    *)
(***************************************************************************)
\* The pixels the scan under way has walked
Walked == Abs(scan.cursor - scan.from) \div UnitsPerPixel

\* The scan under way has walked no further than from its start to the edge
\* of the world it walks towards, and a pixel more
ScanBounded ==
    /\ scan.pc \in {"walkUp", "walkLeft"} => scan.cursor >= Min(scan.from, 0 - Pixels(1))
    /\ scan.pc = "walkDown" => scan.cursor <= Max(scan.from, Pixels(height + 1))
    /\ scan.pc = "walkRight" => scan.cursor <= Max(scan.from, Pixels(width + 1))
    /\ Walked <= Max(width, height) + Max(TestWidth, TestHeight)

\* The call has returned, and left the entity that resolveTerrainCollision leaves
Returned ==
    /\ scan.pc = "done"
    /\ entity = resolveTerrainCollision(TerrainOf(imageData, width, height), scan.e0, physicsFile)

\* C20: every call of resolveTerrainCollision returns, whatever the bitmap and
\* the entity's position and size: each of its four scans stops after a
\* bounded number of pixels, also where the entity is wedged in solid terrain.
C20_ScansTerminate == []ScanBounded /\ <>Returned

\* An entity inside a map that is solid everywhere: the call returned after
\* scans that ran to the edges of the world.
C20_Witness ==
    /\ scan.pc = "done"
    /\ canvas.map = "full"
    /\ scan.e0.x > 0 /\ scan.e0.x < Pixels(width)
    /\ scan.e0.y > 0 /\ scan.e0.y < Pixels(height)
    /\ Walked >= 1
    /\ entity # scan.e0

(***************************************************************************)
(* Claims about the outcome of a terrain contact, checked under SpecGame    *)
(* and SpecMarch.                                                           *)
(***************************************************************************)
\* The squared speed of projectile p, in (px/s)^2.
Speed2(p) == p.vx * p.vx + p.vy * p.vy

\* The last terrain contact of shot id left it flying, or stationary and at rest.
LeftFastOrAtRest(id) ==
    LET left == impactLog[id].left
    IN  IF left.stationary THEN left.vx = 0 /\ left.vy = 0
        ELSE Speed2(left) > 40 * 40

\* C21: after a terrain contact a bouncing projectile keeps flying only if
\* its speed after reflection and scaling by its bounciness exceeds 40 px/s;
\* otherwise it ends the tick stationary with velocity (0, 0).  No bouncing
\* projectile leaves a terrain contact flying at 40 px/s or less.
C21_SlowBounceSettles ==
    \A id \in Fired : impactLog[id].bounced => LeftFastOrAtRest(id)

\* What the loop does: the speed it compares with 40 px/s is the one the
\* projectile arrived with, before the reflection and the scaling.
C21_ArrivalSpeedDecides ==
    \A id \in Fired :
        impactLog[id].bounced =>
            /\ KeptFlying(id) <=> Speed2(impactLog[id].hit) > 40 * 40
            /\ impactLog[id].left.stationary =>
                   impactLog[id].left.vx = 0 /\ impactLog[id].left.vy = 0

\* A projectile that arrived faster than 40 px/s and left flying slower.
C21_LeftSlowButFlying ==
    \E id \in Fired :
        /\ KeptFlying(id)
        /\ Speed2(impactLog[id].hit) > 40 * 40
        /\ Speed2(impactLog[id].left) <= 40 * 40

(***************************************************************************)
(* Claims about the mine, checked under SpecGame.                           *)
(***************************************************************************)
\* The mines of the collection ps that are lying untriggered.
Untriggered(ps) ==
    {ps[i].id : i \in {j \in DOMAIN ps : ps[j].triggeredByProximity /\ ~ps[j].isTriggered}}

\* The mines of the collection ps that are triggered.
TriggeredMines(ps) ==
    {ps[i].id : i \in {j \in DOMAIN ps : ps[j].triggeredByProximity /\ ps[j].isTriggered}}

\* The living koalas other than koala shooter within radius px of (x, y).
OthersNear(ks, shooter, x, y, radius) ==
    {k \in DOMAIN ks : k # shooter /\ ks[k].isAlive /\ Within(ks[k].x, ks[k].y, x, y, radius)}

\* The mine of shot id in the collection ps.
MineOf(ps, id) == ps[CHOOSE i \in DOMAIN ps : ps[i].id = id]

\* The tick triggers no mine but one that has a living koala other than its
\* shooter within 65 px.
TriggeredByAnother ==
    \A id \in Untriggered(projectiles) \cap TriggeredMines(projectiles') :
        OthersNear(koalas, MineOf(projectiles', id).shooter,
                   MineOf(projectiles', id).x, MineOf(projectiles', id).y, 65) # {}

\* C22: a stationary, untriggered mine is never triggered by its own shooter:
\* isTriggered becomes true only in a tick in which a living koala other than
\* the mine's shooter is within 65 px of the mine.
C22_ShooterNeverTriggers == [][TriggeredByAnother]_vars

\* What the loop does: the mine is triggered in a tick in which a living
\* koala, the shooter or another, is within 65 px of it.
TriggeredByAnyone ==
    \A id \in Untriggered(projectiles) \cap TriggeredMines(projectiles') :
        /\ MineOf(projectiles', id).stationary
        /\ findNearbyKoala(koalas, MineOf(projectiles', id).x, MineOf(projectiles', id).y, 65) # 0

C22_AnyLivingKoalaTriggers == [][TriggeredByAnyone]_vars

\* A triggered mine with no living koala but its shooter within 65 px.
C22_TriggeredByShooterAlone ==
    \E id \in TriggeredMines(projectiles) :
        /\ Active(id)
        /\ koalas[Latest(id).shooter].isAlive
        /\ Within(koalas[Latest(id).shooter].x, koalas[Latest(id).shooter].y,
                  Latest(id).x, Latest(id).y, 65)
        /\ OthersNear(koalas, Latest(id).shooter, Latest(id).x, Latest(id).y, 65) = {}

\* Whether shot id is in the collection ps.
ActiveIn(ps, id) == \E i \in DOMAIN ps : ps[i].id = id

\* A tick of the loop counts a triggered mine that is no dud down: its
\* triggerTimer grows by dt and it stays triggered, until the tick in which
\* the timer reaches triggerDelay, where it detonates and is removed.
CountsDown(id) ==
    LET m == MineOf(projectiles, id)
    IN  IF m.triggerTimer + frameDt >= m.triggerDelay
        THEN /\ ~ActiveIn(projectiles', id)
             /\ impactLog'[id].impacts = impactLog[id].impacts + 1
             /\ impactLog'[id].removed
             /\ impactLog'[id].detonated.triggerTimer = m.triggerTimer + frameDt
        ELSE /\ ActiveIn(projectiles', id)
             /\ MineOf(projectiles', id).isTriggered
             /\ MineOf(projectiles', id).triggerTimer = m.triggerTimer + frameDt
             /\ impactLog'[id].impacts = impactLog[id].impacts

TriggeredCountDown ==
    \A id \in TriggeredMines(projectiles) :
        (phase' = phase /\ ~MineOf(projectiles, id).isDud) => CountsDown(id)

\* No mine has detonated but a triggered one.
DetonatedWereTriggered ==
    \A id \in Detonated :
        impactLog[id].detonated.triggeredByProximity => impactLog[id].detonated.isTriggered

\* C23: once a mine that is no dud is triggered it stays triggered, its
\* triggerTimer grows by dt on every following tick, and it detonates and is
\* removed on the first tick where triggerTimer >= triggerDelay, whoever is
\* still in range; it never detonates before it is triggered.
C23_MineCountdown == []DetonatedWereTriggered /\ [][TriggeredCountDown]_vars

\* What the loop does for a mine once it is triggered.
C23_TriggeredMineCountsDown == [][TriggeredCountDown]_vars

\* A mine that detonated in flight, untriggered, on the koala it touched.
C23_DetonatedUntriggered ==
    \E id \in Detonated :
        /\ impactLog[id].detonated.type = "mine"
        /\ ~impactLog[id].detonated.isTriggered
        /\ ~impactLog[id].detonated.stationary
        /\ impactLog[id].direct = Neighbour

\* A mine that counted down to its detonation.
C23_CountedDown ==
    \E id \in Detonated :
        /\ impactLog[id].detonated.type = "mine"
        /\ impactLog[id].detonated.isTriggered
        /\ impactLog[id].detonated.triggerTimer >= impactLog[id].detonated.triggerDelay

(***************************************************************************)
(* Claims about the settle detonation, checked under SpecGame and SpecNear. *)
(***************************************************************************)
\* The projectile p after the physics step of a tick, before update().
Moving(p) == IF ~p.stationary THEN updateProjectile(p, frameDt, wind) ELSE p

\* Whether the speed of p is below its settleVelocityThreshold.
Slow(p) == Speed2(p) < p.settleVelocityThreshold * p.settleVelocityThreshold

\* The settleTime the tick leaves projectile p with: 0 if its speed after the
\* physics step is at or above the threshold, dt more than before if below.
SettleTimeAfter(p) == IF Slow(Moving(p)) THEN p.settleTime + frameDt ELSE 0

\* A tick of the loop on the settle-detonate projectile of shot id: it
\* detonates and is removed if its settleTime reaches settleRequiredTime in
\* this tick, and otherwise, while it stays in the collection, carries the
\* settleTime of the rule.
SettleTick(id) ==
    LET p == MineOf(projectiles, id)
    IN  IF SettleTimeAfter(p) >= p.settleRequiredTime
        THEN /\ ~ActiveIn(projectiles', id)
             /\ impactLog'[id].impacts = impactLog[id].impacts + 1
             /\ impactLog'[id].detonated.settleTime = SettleTimeAfter(p)
        ELSE ActiveIn(projectiles', id) =>
                 /\ MineOf(projectiles', id).settleTime = SettleTimeAfter(p)
                 /\ impactLog'[id].impacts = impactLog[id].impacts

SettleTicks ==
    \A i \in DOMAIN projectiles :
        (phase' = phase /\ projectiles[i].explodesOnSettle) => SettleTick(projectiles[i].id)

\* Every settle-detonate projectile that detonated had been slow for
\* settleRequiredTime without a break.
SettledBeforeDetonation ==
    \A id \in Detonated :
        impactLog[id].detonated.explodesOnSettle =>
            /\ impactLog[id].detonated.settleTime >= impactLog[id].detonated.settleRequiredTime
            /\ Slow(impactLog[id].detonated)

\* C24: for a settle-detonate projectile every tick, stationary or not,
\* resets settleTime to 0 if the speed is at or above settleVelocityThreshold
\* and adds dt to it if the speed is below; update() signals the detonation
\* on the first tick where settleTime >= 0.3 s, so that a detonation takes an
\* unbroken run of slow ticks of at least 0.3 s.
C24_SettleDetonation == []SettledBeforeDetonation /\ [][SettleTicks]_vars

\* What update() does with settleTime on every tick.
C24_SettleTimeRule == [][SettleTicks]_vars

\* A holy grenade that detonated in flight, on the koala it touched, with no
\* slow tick behind it.
C24_DetonatedUnsettled ==
    \E id \in Detonated :
        /\ impactLog[id].detonated.explodesOnSettle
        /\ impactLog[id].detonated.settleTime = 0
        /\ ~Slow(impactLog[id].detonated)
        /\ impactLog[id].direct = Neighbour

\* A holy grenade that detonated after 0.3 s of slow ticks, and one whose
\* count was reset on the way.
C24_Settled ==
    \E id \in Detonated :
        /\ impactLog[id].detonated.explodesOnSettle
        /\ impactLog[id].detonated.settleTime >= impactLog[id].detonated.settleRequiredTime
        /\ impactLog[id].detonated.bounceCount >= 1

(***************************************************************************)
(* Claims about the exit from the world, checked under SpecEdge.            *)
(***************************************************************************)
\* The three exit conditions of updateProjectiles for a projectile at (x, y).
ExitLeft(p) == p.x < Pixels(0 - 100)
ExitRight(p) == p.x > Pixels(worldWidth + 100)
ExitBelow(p) == p.y > Pixels(worldHeight + 100)
OutOfWorld(p) == ExitLeft(p) \/ ExitRight(p) \/ ExitBelow(p)

\* Shot id was taken from the collection in this tick, and nothing else
\* happened: no impact, no crater, no damage, and it was never stationary.
RemovedSilently(id) ==
    /\ ~ActiveIn(projectiles', id)
    /\ impactLog'[id].removed
    /\ ~impactLog'[id].final.stationary
    /\ impactLog'[id].impacts = impactLog[id].impacts
    /\ impactLog'[id].craters = impactLog[id].craters
    /\ canvas' = canvas /\ imageData' = imageData
    /\ koalas' = koalas

\* A tick removes silently every flying projectile that the physics step put
\* outside the world, unless update() signals its detonation in that tick.
ExitsSilently ==
    \A i \in DOMAIN projectiles :
        (/\ phase' = phase
         /\ ~projectiles[i].stationary
         /\ ~Truthy(Integrated(projectiles[i]).ret)
         /\ OutOfWorld(Integrated(projectiles[i]).p))
            => RemovedSilently(projectiles[i].id)

\* C25: a flying projectile whose position after integration has x < -100,
\* x > worldWidth + 100 or y > worldHeight + 100 is removed in that tick
\* without a handleProjectileImpact call, crater, damage or change to
\* stationary, for every weapon and each of the three conditions.
C25_ExitsSilently == [][ExitsSilently]_vars

\* What the loop does: the exit is silent where the path of the tick stays
\* above the floor line y = worldHeight, below which checkCollision reports
\* solid terrain.
ExitsSilentlyAboveFloor ==
    \A i \in DOMAIN projectiles :
        (/\ phase' = phase
         /\ ~projectiles[i].stationary
         /\ ~Truthy(Integrated(projectiles[i]).ret)
         /\ OutOfWorld(Integrated(projectiles[i]).p)
         /\ Integrated(projectiles[i]).p.y < Pixels(worldHeight)
         /\ projectiles[i].y < Pixels(worldHeight))
            => RemovedSilently(projectiles[i].id)

C25_ExitsSilentlyAboveFloor == [][ExitsSilentlyAboveFloor]_vars

\* A shot that left the map sideways and detonated on the floor line beside it.
C25_DetonatedBelowFloor ==
    \E id \in Detonated :
        /\ impactLog[id].detonated.y >= Pixels(worldHeight)
        /\ \/ impactLog[id].detonated.x < 0
           \/ impactLog[id].detonated.x >= Pixels(worldWidth)
        /\ impactLog[id].craters = 1

\* Shots that left the world to the left and to the right, silently.
C25_LeftSilently ==
    \E id \in Fired :
        /\ impactLog[id].removed /\ impactLog[id].impacts = 0
        /\ ExitLeft(impactLog[id].final) \/ ExitRight(impactLog[id].final)

\* No projectile is ever found more than 100 px below the floor line: the
\* march stops each one at the floor line, and the third exit condition
\* never decides.
C25_NoneFarBelowFloor ==
    \A id \in Fired :
        (Active(id) \/ impactLog[id].removed) => ~ExitBelow(Latest(id))

(***************************************************************************)
(* Claims about the rope and about contact with a koala, checked under      *)
(* SpecNear.                                                                *)
(***************************************************************************)
\* The ropes in the collection.
Ropes == {i \in DOMAIN projectiles : projectiles[i].type = "rope"}

\* The tick leaves every koala's health as it was.
HealthKept == \A k \in DOMAIN koalas : koalas'[k].health = koalas[k].health

\* The velocity handleRopeHit gives the shooter of rope p, hooked at (x, y):
\* 1200 px/s towards the hook, the vertical part half as much again.
PulledTo(shooter, x, y) ==
    LET dx == PixelOf(x - shooter.x)
        dy == PixelOf(y - shooter.y)
        dist == ISqrt(dx * dx + dy * dy)
    IN  [vx |-> (dx * 1200) \div dist, vy |-> (dy * 1800) \div dist]

\* The rope of shot id hooked the terrain in this tick: the shooter is pulled
\* to where it was when it was removed.
Hooked(id) ==
    LET hook == impactLog'[id].final
        pull == PulledTo(koalas[hook.shooter], hook.x, hook.y)
    IN  /\ koalas'[hook.shooter].vx = pull.vx
        /\ koalas'[hook.shooter].vy = pull.vy
        /\ ~koalas'[hook.shooter].onGround

\* A tick with a rope in the collection: no handleProjectileImpact call, no
\* crater, no koala's health changed; if it takes the rope from the
\* collection inside the world, it has pulled the shooter to the hook.
RopeTick(i) ==
    LET id == projectiles[i].id
    IN  /\ impactLog'[id].impacts = 0
        /\ impactLog'[id].craters = 0
        /\ canvas' = canvas /\ imageData' = imageData
        /\ HealthKept
        /\ (impactLog'[id].removed /\ ~OutOfWorld(impactLog'[id].final)) => Hooked(id)

RopeHarmless == \A i \in Ropes : phase' = phase => RopeTick(i)

\* C26: a rope never detonates: on no path (terrain hit, contact with a
\* koala, leaving the world) does it cause a handleProjectileImpact call, a
\* crater or a change to a koala's health; on a terrain hit it sets the
\* shooter's velocity towards the impact point and is removed in the same tick.
C26_RopeNeverDetonates == [][RopeHarmless]_vars

\* What the loop does: the rope is harmless in every tick whose path touches
\* no living koala but the shooter.
RopeHarmlessAwayFromKoalas ==
    \A i \in Ropes :
        (/\ phase' = phase
         /\ \A k \in DOMAIN koalas \ {projectiles[i].shooter} :
                koalas[k].isAlive =>
                    ~Within(koalas[k].x, koalas[k].y, projectiles[i].x, projectiles[i].y, 20 + 60))
            => RopeTick(i)

C26_RopeHarmlessAwayFromKoalas == [][RopeHarmlessAwayFromKoalas]_vars

\* A rope that touched the neighbour: handleProjectileImpact ran with the
\* neighbour as the koala hit, and left its health changed.
C26_RopeHitKoala ==
    \E id \in Detonated :
        /\ impactLog[id].detonated.type = "rope"
        /\ impactLog[id].direct = Neighbour
        /\ impactLog[id].craters = 0
        /\ impactLog[id].after[Neighbour].health # impactLog[id].before[Neighbour].health

\* A rope that hooked the wall and pulled the shooter off the ground.
C26_RopeHooked ==
    \E id \in Fired :
        /\ impactLog[id].removed
        /\ impactLog[id].final.type = "rope"
        /\ impactLog[id].impacts = 0
        /\ impactLog[id].final.x >= Pixels(WallLeft - 1)
        /\ koalas[1].vx > 0 /\ ~koalas[1].onGround

\* Whether koala k is less than 20 px from sample sm of the path from p to q.
Touches(k, p, q, steps, sm) ==
    Within(koalas[k].x, koalas[k].y,
           MarchSample(p.x, q.x, steps, sm), MarchSample(p.y, q.y, steps, sm), 20)

\* The living koalas other than the shooter of p.
Targets(p) == {k \in DOMAIN koalas : k # p.shooter /\ koalas[k].isAlive}

\* Projectile d detonated at sample sm of the path from p to q on koala k, a
\* target that the sample touches, and no earlier sample touches any target.
EarliestContact(p, q, steps, sm, k, d) ==
    /\ d.x = MarchSample(p.x, q.x, steps, sm)
    /\ d.y = MarchSample(p.y, q.y, steps, sm)
    /\ k \in Targets(p)
    /\ Touches(k, p, q, steps, sm)
    /\ \A earlier \in 1..(sm - 1) : \A j \in Targets(p) : ~Touches(j, p, q, steps, earlier)

\* If the tick detonated the projectile at index i on a koala, it was flying
\* and the koala is the one of the earliest contact on its path.
ContactDetonation(i) ==
    LET p == projectiles[i]
        q == Integrated(p).p
        steps == MarchSteps(p.x, p.y, q.x, q.y)
        log == impactLog'[p.id]
    IN  (log.impacts = impactLog[p.id].impacts + 1 /\ log.direct # 0) =>
            /\ ~p.stationary
            /\ \E sm \in 1..steps : EarliestContact(p, q, steps, sm, log.direct, log.detonated)

ContactsDetonate == \A i \in DOMAIN projectiles : ContactDetonation(i)

\* C27: a flying projectile is detonated by contact only with a living koala
\* other than its shooter whose centre is within 20 px of one of the tick's
\* path samples; the earliest such sample fixes the impact point and the
\* koala hit; neither a dead koala nor the shooter ever sets it off.
C27_ContactDetonation == [][ContactsDetonate]_vars

\* A shot that detonated on the living neighbour,
C27_Witness ==
    \E id \in Detonated :
        /\ impactLog[id].direct = Neighbour
        /\ impactLog[id].before[Neighbour].isAlive
        /\ impactLog[id].detonated.shooter = 1
        /\ ~impactLog[id].detonated.stationary

\* and a shot in flight at a sample less than 20 px from the dead neighbour.
C27_PassedTheDead ==
    \E i \in DOMAIN projectiles :
        /\ ~projectiles[i].stationary
        /\ ~koalas[Neighbour].isAlive
        /\ Within(koalas[Neighbour].x, koalas[Neighbour].y, projectiles[i].x, projectiles[i].y, 20)

\* and a shot that bounced back and flies less than 20 px from its shooter.
C27_PassedTheShooter ==
    \E i \in DOMAIN projectiles :
        /\ ~projectiles[i].stationary
        /\ impactLog[projectiles[i].id].bounced
        /\ koalas[projectiles[i].shooter].isAlive
        /\ Within(koalas[projectiles[i].shooter].x, koalas[projectiles[i].shooter].y,
                  projectiles[i].x, projectiles[i].y, 20)

(***************************************************************************)
(* Claims about the order of a projectile's tick, checked under SpecNear.   *)
(***************************************************************************)
\* The samples s = 1..steps of the path from p to q that lie inside the terrain.
SamplesInTerrain(p, q, steps) ==
    {sm \in 1..steps :
        CheckCollisionIn(imageData, worldWidth, worldHeight,
                         <<p.x * steps + (q.x - p.x) * sm, UnitsPerPixel * steps>>,
                         <<p.y * steps + (q.y - p.y) * sm, UnitsPerPixel * steps>>)}

\* The samples s = 1..steps that touch a living koala other than the shooter.
ContactSamples(p, q, steps) ==
    {sm \in 1..steps : \E k \in Targets(p) : Touches(k, p, q, steps, sm)}

\* The first of a set of samples.
First(samples) == CHOOSE sm \in samples : \A other \in samples : sm <= other

\* Shot id detonated in this tick at (x, y), on koala k (0 for none).
DetonatedAt(id, x, y, k) ==
    /\ ~ActiveIn(projectiles', id)
    /\ impactLog'[id].impacts = impactLog[id].impacts + 1
    /\ impactLog'[id].detonated.x = x /\ impactLog'[id].detonated.y = y
    /\ impactLog'[id].direct = k

\* The terrain branch took shot id at sample sm of the path from p to q: it is
\* still in the collection within the 4 px of the push along the normal, or
\* it was removed at the sample; no koala was hit.
TookTerrainBranch(id, p, q, steps, sm) ==
    LET x == MarchSample(p.x, q.x, steps, sm)
        y == MarchSample(p.y, q.y, steps, sm)
    IN  /\ impactLog'[id].pathInTerrain
        /\ impactLog'[id].direct = 0
        /\ IF ActiveIn(projectiles', id)
           THEN /\ Abs(MineOf(projectiles', id).x - x) <= Pixels(4)
                /\ Abs(MineOf(projectiles', id).y - y) <= Pixels(4)
                /\ impactLog'[id].impacts = impactLog[id].impacts
           ELSE /\ impactLog'[id].final.x = x /\ impactLog'[id].final.y = y
                /\ impactLog'[id].impacts <= impactLog[id].impacts + 1

\* The tick of projectile p, in the order of the loop: r is what the physics
\* step and then update() make of it, q what the proximity check makes of that.
OrderedTick(p, r, q, steps) ==
    IF Truthy(r.ret) THEN DetonatedAt(p.id, q.x, q.y, 0)
    ELSE IF q.stationary
    THEN ActiveIn(projectiles', p.id) /\ MineOf(projectiles', p.id) = q
    ELSE IF SamplesInTerrain(p, q, steps) # {}
    THEN TookTerrainBranch(p.id, p, q, steps, First(SamplesInTerrain(p, q, steps)))
    ELSE IF OutOfWorld(q) THEN RemovedSilently(p.id)
    ELSE IF ContactSamples(p, q, steps) # {}
    THEN \E k \in Targets(p) :
            DetonatedAt(p.id,
                        MarchSample(p.x, q.x, steps, First(ContactSamples(p, q, steps))),
                        MarchSample(p.y, q.y, steps, First(ContactSamples(p, q, steps))), k)
    ELSE ActiveIn(projectiles', p.id) /\ MineOf(projectiles', p.id) = q

TicksAreOrdered ==
    \A i \in DOMAIN projectiles :
        phase' = phase =>
            OrderedTick(projectiles[i], Integrated(projectiles[i]),
                        CheckProximity(koalas, Integrated(projectiles[i]).p),
                        MarchSteps(projectiles[i].x, projectiles[i].y,
                                   Integrated(projectiles[i]).p.x, Integrated(projectiles[i]).p.y))

\* C28: within the tick of one projectile the steps run in the order
\* integrate, state machine, proximity check, detonation, terrain collision,
\* bounds exit, koala collision; the collision samples are
\* prev + (cur - prev) * s / steps for s = 1..steps, so that the position
\* after integration is tested and the one before it is not.
C28_TickOrder == [][TicksAreOrdered]_vars

\* A shot that the terrain branch detonated at a sample less than 20 px from
\* the living neighbour: the terrain was looked at before the koalas.
C28_Witness ==
    \E id \in Detonated :
        /\ impactLog[id].direct = 0
        /\ impactLog[id].pathInTerrain
        /\ impactLog[id].detonated.timeOnGround = 0
        /\ impactLog[id].before[Neighbour].isAlive
        /\ Within(impactLog[id].before[Neighbour].x, impactLog[id].before[Neighbour].y,
                  impactLog[id].detonated.x, impactLog[id].detonated.y, 20)

(***************************************************************************)
(* Claims about stationary projectiles, checked under SpecLying.            *)
(***************************************************************************)
\* A tick leaves the stationary projectile of shot id, while it stays in the
\* collection, where it is, at rest and stationary.
StaysPut(p) ==
    ActiveIn(projectiles', p.id) =>
        /\ MineOf(projectiles', p.id).x = p.x
        /\ MineOf(projectiles', p.id).y = p.y
        /\ MineOf(projectiles', p.id).vx = p.vx
        /\ MineOf(projectiles', p.id).vy = p.vy
        /\ MineOf(projectiles', p.id).stationary

StationaryStay ==
    \A i \in DOMAIN projectiles : projectiles[i].stationary => StaysPut(projectiles[i])

\* C29: every tick leaves the x, y, vx and vy of a stationary projectile
\* unchanged (no gravity, wind, terrain collision, bounds check or koala
\* collision is applied to it), and stationary never reverts to false while
\* the projectile is in the collection, even after the terrain under it has
\* been carved away.
C29_StationaryStays == [][StationaryStay]_vars

\* Whether (x, y) and the 3 px around it are free of terrain.
InTheAir(x, y) ==
    \A dx \in {0 - 3, 0, 3}, dy \in {0 - 3, 0, 3} :
        ~CheckCollisionIn(imageData, worldWidth, worldHeight,
                          <<x + Pixels(dx), UnitsPerPixel>>, <<y + Pixels(dy), UnitsPerPixel>>)

\* The mine stuck to the wall; the later shot has carved the wall away, and
\* the mine is still in the collection, stationary in the air at its place.
C29_Witness ==
    \E i \in DOMAIN projectiles :
        /\ projectiles[i].type = "mine"
        /\ projectiles[i].stationary
        /\ projectiles[i].vx = 0 /\ projectiles[i].vy = 0
        /\ Len(canvas.craters) >= 1
        /\ InTheAir(projectiles[i].x, projectiles[i].y)
        /\ Len(impactLog) = MaxShots + 1 /\ impactLog[MaxShots + 1].removed

(***************************************************************************)
(* Claims about the depth of the feet probe, checked under SpecResolve.     *)
(***************************************************************************)
\* The entity handed to the call was on the ground and is not rising, and the
\* first solid pixel under its feet is 4 to 10 px below them: the probes at
\* offsets -2..3 find nothing, one at an offset of 4..10 does.
GroundJustBelow(e) ==
    /\ e.onGround
    /\ e.vy >= 0
    /\ FeetHits(TerrainOf(imageData, width, height), e, 3) = {}
    /\ FeetHits(TerrainOf(imageData, width, height), e, 10) # {}

\* C30: in ground resolution the probe reaches 10 px down for an entity that
\* was onGround at the end of the previous tick and 3 px for one in the air;
\* so an entity that was on the ground, is not rising and has its feet 4 to
\* 10 px above solid ground after integration is snapped onto that ground and
\* ends the tick with onGround = true.
C30_StickyFeet ==
    (scan.pc = "done" /\ GroundJustBelow(scan.e0)) =>
        /\ entity.onGround
        /\ entity.vy = 0

\* What the method does: onGround is set to false before the depth is chosen,
\* so the probe reaches 3 px down for every entity, and one whose nearest
\* ground is further below its feet leaves the call in the air.
C30_ProbesThreeDown ==
    scan.pc = "done" =>
        (entity.onGround =>
            FeetHits(TerrainOf(imageData, width, height), scan.e0, 3) # {})

\* An entity that was on the ground, with ground 4 to 10 px below its feet
\* inside the bitmap, has left the call in the air.
C30_LeftInTheAir ==
    /\ scan.pc = "done"
    /\ GroundJustBelow(scan.e0)
    /\ scan.e0.x >= 0 /\ scan.e0.x < Pixels(width)
    /\ scan.e0.y - HalfHeight(scan.e0) >= 0
    /\ scan.e0.y + HalfHeight(scan.e0) + Pixels(10) < Pixels(height)
    /\ ~entity.onGround

(***************************************************************************)
(* Claims about an entity that is rising when resolveTerrainCollision is    *)
(* called, checked under SpecResolve.                                       *)
(***************************************************************************)
\* The entity handed to the call is moving upward.
Rising(e) == e.vy < 0

\* A probe around the feet of the entity handed to the call hits the terrain.
FeetTouch(e) == FeetHits(TerrainOf(imageData, width, height), e, 3) # {}

\* The ceiling and wall resolution of the call, applied to entity e
HeadAndWalls(e) ==
    ResolveLeft(TerrainOf(imageData, width, height),
        ResolveRight(TerrainOf(imageData, width, height),
            ResolveHead(TerrainOf(imageData, width, height), e)))

\* C31: an entity whose vy is negative after integration is never snapped to
\* the ground in that tick: ground resolution leaves its y and vy as they are
\* and onGround false, and only the snap is skipped, so the call leaves the
\* entity as ceiling and wall resolution leave the unsnapped entity.
C31_RisingSkipsOnlySnap ==
    (scan.pc = "done" /\ Rising(scan.e0)) =>
        entity = HeadAndWalls([scan.e0 EXCEPT !.onGround = FALSE])

\* What js/network/NetworkManager.js does: a rising entity whose feet probes
\* hit the terrain leaves the call as it entered it, with onGround false;
\* one whose feet probes hit nothing gets the ceiling and wall resolution.
C31_NetworkReturnsEarly ==
    (scan.pc = "done" /\ physicsFile = NetworkPhysics /\ Rising(scan.e0)) =>
        entity = IF FeetTouch(scan.e0)
                 THEN [scan.e0 EXCEPT !.onGround = FALSE]
                 ELSE HeadAndWalls([scan.e0 EXCEPT !.onGround = FALSE])

\* What js/engine/Physics.js does: a rising entity whose feet probes hit the
\* terrain is snapped like any other, and leaves the call on the ground
\* unless the ceiling resolution that follows set it rising or falling again.
C31_EngineSnapsRising ==
    (scan.pc = "done" /\ physicsFile = EnginePhysics /\ Rising(scan.e0)
        /\ FeetTouch(scan.e0)) =>
        entity.onGround

\* js/network/NetworkManager.js has left a rising entity with its head or a
\* side inside the terrain: the resolution the call skipped would move it.
C31_LeftInsideTerrain ==
    /\ scan.pc = "done"
    /\ physicsFile = NetworkPhysics
    /\ Rising(scan.e0)
    /\ FeetTouch(scan.e0)
    /\ scan.e0.x >= 0 /\ scan.e0.x < Pixels(width)
    /\ scan.e0.y - HalfHeight(scan.e0) >= 0
    /\ scan.e0.y + HalfHeight(scan.e0) < Pixels(height)
    /\ HeadAndWalls(entity) # entity

\* js/engine/Physics.js has snapped a rising entity to the ground.
C31_SnappedWhileRising ==
    /\ scan.pc = "done"
    /\ physicsFile = EnginePhysics
    /\ Rising(scan.e0)
    /\ scan.e0.x >= 0 /\ scan.e0.x < Pixels(width)
    /\ scan.e0.y + HalfHeight(scan.e0) < Pixels(height)
    /\ entity.onGround /\ entity.vy = 0
    /\ entity.y # scan.e0.y

(***************************************************************************)
(* A koala on its own above the water: a custom map whose ground is below  *)
(* the waterline (map `shelf`: the last six rows of the image), the koala  *)
(* in the air as a teleport leaves it, moved by Physics.update() frame by  *)
(* frame while the damage phase may run applyFallDamage().                 *)
(***************************************************************************)
WaterColumns == {400, 1300}
WaterHeights == {1000, 1100}

InitWater ==
    /\ width = worldWidth
    /\ height = worldHeight
    /\ canvas = [BlankCanvas(worldWidth, worldHeight) EXCEPT !.map = "shelf"]
    /\ imageData = updateCollisionMask(canvas)
    /\ lastCrater = NoCrater
    /\ NoHarness
    /\ NoGame
    /\ NoLoop
    /\ NoTwin
    /\ NoTurn
    /\ NoGrid
    /\ NoScan
    /\ physicsFile \in PhysicsFiles
    /\ \E x \in WaterColumns, y \in WaterHeights, dt \in FrameDts :
          /\ entity = [Koala(Pixels(x), Pixels(y), 1) EXCEPT !.onGround = FALSE]
          /\ landing = [NoLanding EXCEPT !.dt = dt]

NextWater == physicsUpdate \/ processDamage

SpecWater == InitWater /\ [][NextWater]_vars

\* The waterline of updateEntity: worldHeight - 60, in position units
Waterline == Pixels(height - 60)

\* C32: after every physics step no living character has y beyond the
\* waterline (worldHeight - 60): a character whose y crosses it is marked dead
\* in that same step, whatever its health and whatever the game phase.
C32_NoneAliveBelowWaterline ==
    entity.isAlive => entity.y <= Waterline

\* What js/network/NetworkManager.js does: its updateEntity marks a koala
\* beyond the waterline dead in the step that takes it there.
C32_NetworkDrowns ==
    physicsFile = NetworkPhysics => (entity.isAlive => entity.y <= Waterline)

\* What js/engine/Physics.js does: its updateEntity never marks a koala dead;
\* a koala dies in the water only when the damage phase runs applyFallDamage.
C32_EngineDrownsInDamagePhase ==
    [][(physicsFile = EnginePhysics /\ entity.isAlive /\ ~entity'.isAlive)
        => (landing'.applies = landing.applies + 1 /\ entity.y > Pixels(height - 50))]_vars

\* The koala of js/engine/Physics.js stands on the ground below the waterline,
\* alive and with full health, after a physics step.
C32_AliveInWater ==
    /\ physicsFile = EnginePhysics
    /\ entity.isAlive /\ entity.health = 100
    /\ entity.onGround
    /\ entity.y > Waterline

\* The koala of js/network/NetworkManager.js has drowned with full health.
C32_Drowned ==
    /\ physicsFile = NetworkPhysics
    /\ ~entity.isAlive /\ entity.health = 100
    /\ entity.y > Waterline
    /\ landing.applies = 0

(***************************************************************************)
(* Walking: InputManager.updateAiming moves the current koala by           *)
(* moveSpeed * dt along the ground as Physics.canWalkUp allows, on the     *)
(* Terrain of TestWidth x TestHeight pixels.  scan keeps the last call:    *)
(* scan.e0 the koala it was handed, scan.from its dx, scan.cursor the newY *)
(* it returned and scan.pc whether it returned canMove.                    *)
(***************************************************************************)
\* InputManager.moveSpeed, in px/s
moveSpeed == 12

\* maxClimb and maxStepDown of canWalkUp in the two classes, in pixels
maxClimbEngine == 15
maxClimbNetwork == 8
maxStepDown == 16

\* The result of canWalkUp: { canMove: true, newY } and { canMove: false }
CanMove(newY) == [canMove |-> TRUE, newY |-> newY]
CannotMove == [canMove |-> FALSE, newY |-> None]

\* The least element of a set of numbers
Least(S) == CHOOSE n \in S : \A other \in S : n <= other

\* canWalkUp of js/engine/Physics.js with the destination foot pixel solid:
\* the first clear pixel up to maxClimb above it
ClimbEngine(e, climbs) ==
    IF climbs = {} THEN CannotMove ELSE CanMove(e.y - Pixels(Least(climbs)))

\* canWalkUp of js/engine/Physics.js
canWalkUpEngine(t, e, newX, footY) ==
    IF ~Probe(t, newX, footY) THEN CanMove(e.y)
    ELSE ClimbEngine(e, {climb \in 1..maxClimbEngine : ~Probe(t, newX, footY - Pixels(climb))})

\* canWalkUp of js/network/NetworkManager.js with the destination foot pixel
\* clear: the first solid pixel up to maxStepDown below it
StepDown(e, downs) ==
    IF downs = {} THEN CanMove(e.y) ELSE CanMove(e.y + Pixels(Least(downs)))

\* canWalkUp of js/network/NetworkManager.js with the destination foot pixel
\* solid: the first height at which the foot and the head are both clear
ClimbNetwork(e, climbs) ==
    IF climbs = {} THEN CannotMove ELSE CanMove(e.y - Pixels(Least(climbs)))

\* canWalkUp of js/network/NetworkManager.js
canWalkUpNetwork(t, e, newX, footY) ==
    IF ~Probe(t, newX, footY)
    THEN StepDown(e, {down \in 0..maxStepDown : Probe(t, newX, footY + Pixels(down))})
    ELSE ClimbNetwork(e, {climb \in 1..maxClimbNetwork :
                            /\ ~Probe(t, newX, footY - Pixels(climb))
                            /\ ~Probe(t, newX, e.y - HalfHeight(e) - Pixels(climb))})

\* Physics.canWalkUp(entity, dx), in the Physics class of file
canWalkUp(t, e, dx, file) ==
    IF file = NetworkPhysics
    THEN canWalkUpNetwork(t, e, e.x + dx, e.y + HalfHeight(e))
    ELSE canWalkUpEngine(t, e, e.x + dx, e.y + HalfHeight(e))

\* The koalas that walk: where resolveTerrainCollision leaves an entity of
\* 4 x 6 px at rest that is handed to it in and around the terrain
WalkColumns == {0, 3, 5, 8, TestWidth - 1}
WalkRows == {1, 4, 7, 9, 12, TestHeight - 4}
WalkMargin == 3

InitWalk ==
    /\ width = TestWidth
    /\ height = TestHeight
    /\ canvas \in {[BlankCanvas(TestWidth, TestHeight) EXCEPT !.map = m] : m \in Maps}
    /\ imageData = updateCollisionMask(canvas)
    /\ lastCrater = NoCrater
    /\ NoHarness
    /\ NoGame
    /\ NoLoop
    /\ NoTwin
    /\ NoTurn
    /\ NoGrid
    /\ landing = NoLanding
    /\ physicsFile \in PhysicsFiles
    /\ \E x \in WalkColumns, y \in WalkRows, f \in ScanFractions :
          entity = resolveTerrainCollision(TerrainOf(imageData, width, height),
                        [Koala(Pixels(x) + f, Pixels(y), 1) EXCEPT !.width = 4, !.height = 6],
                        physicsFile)
    /\ scan = [pc |-> "standing", cursor |-> 0, from |-> 0, e0 |-> entity]

\* updateAiming on the ground: the koala moves by dx if canWalkUp allows it
WalkResult(dx, result) ==
    /\ entity' = IF result.canMove
                 THEN [entity EXCEPT !.x = @ + dx, !.y = result.newY]
                 ELSE entity
    /\ scan' = [pc |-> IF result.canMove THEN "moved" ELSE "blocked",
                cursor |-> result.newY, from |-> dx, e0 |-> entity]

\* updateAiming in the air: koala.vx += moveDir * 50 * dt, kept within -40..40
Steered(moveDir, dt) ==
    /\ entity' = [entity EXCEPT !.vx = Max(-40, Min(40,
                      @ + Trunc(moveDir * 50 * dt, TimeUnitsPerSecond)))]
    /\ scan' = [pc |-> "air", cursor |-> 0, from |-> 0, e0 |-> entity]

\* InputManager.updateAiming(koala, dt) with a movement key held
updateAiming ==
    \E moveDir \in {-1, 1}, dt \in FrameDts :
        /\ entity.x + moveDir * moveSpeed * dt >= 0 - Pixels(WalkMargin)
        /\ entity.x + moveDir * moveSpeed * dt <= Pixels(TestWidth + WalkMargin)
        /\ IF entity.onGround
           THEN WalkResult(moveDir * moveSpeed * dt,
                       canWalkUp(TerrainOf(imageData, width, height), entity,
                                 moveDir * moveSpeed * dt, physicsFile))
           ELSE Steered(moveDir, dt)
        /\ UNCHANGED <<physicsFile, landing, terrainVars, harnessVars, gameVars,
                       followingProjectile, loopVars, twinVars, turnVars, gridVars>>

NextWalk == updateAiming

SpecWalk == InitWalk /\ [][NextWalk]_vars

(***************************************************************************)
(* Claims about canWalkUp, checked under SpecWalk.                          *)
(***************************************************************************)
\* checkCollision at the destination column of the last call, rows pixels
\* below the feet of the koala it was handed (above them for rows < 0)
FootSolidAt(rows) ==
    Probe(TerrainOf(imageData, width, height), scan.e0.x + scan.from,
          scan.e0.y + HalfHeight(scan.e0) + Pixels(rows))

\* checkCollision at the destination column, climb pixels above the head
HeadSolidAt(climb) ==
    Probe(TerrainOf(imageData, width, height), scan.e0.x + scan.from,
          scan.e0.y - HalfHeight(scan.e0) - Pixels(climb))

\* The heights within limit at which the foot pixel and the head pixel of
\* the destination column are both clear
ClearClimbs(limit) == {c \in 1..limit : ~FootSolidAt(0 - c) /\ ~HeadSolidAt(c)}

\* The solid pixels of the destination column within limit below the feet
GroundBelow(limit) == {d \in 0..limit : FootSolidAt(d)}

\* The last call returned canMove: true with newY = y + rise
ReturnedMove(rise) ==
    /\ scan.pc = "moved"
    /\ scan.cursor = scan.e0.y + Pixels(rise)

\* The last call is as the step climb of 8 px and the step down of 16 px say
AsStepClimb ==
    IF FootSolidAt(0)
    THEN IF ClearClimbs(8) = {} THEN scan.pc = "blocked"
         ELSE ReturnedMove(0 - Least(ClearClimbs(8)))
    ELSE IF GroundBelow(16) = {} THEN ReturnedMove(0)
         ELSE ReturnedMove(Least(GroundBelow(16)))

\* C33: canWalkUp(entity, dx), when the destination foot pixel is solid,
\* returns canMove: true with newY = y - c for the smallest c in 1..8 at which
\* both the foot pixel and the head pixel of the destination column are
\* clear, and canMove: false when there is no such c; when the destination
\* foot pixel is clear it returns canMove: true with newY = y + d for the
\* first solid pixel d <= 16 px below the feet, or newY = y when there is none.
C33_CanWalkUp ==
    scan.pc \in {"moved", "blocked"} => AsStepClimb

\* What js/network/NetworkManager.js does: exactly that.
C33_CanWalkUpNetwork ==
    (scan.pc \in {"moved", "blocked"} /\ physicsFile = NetworkPhysics) => AsStepClimb

\* What js/engine/Physics.js does: with the destination foot pixel clear it
\* returns newY = y whatever lies below; with it solid it returns newY = y - c
\* for the first c in 1..15 at which the foot pixel is clear, whatever is at
\* the head, and canMove: false when there is none.
C33_CanWalkUpEngine ==
    (scan.pc \in {"moved", "blocked"} /\ physicsFile = EnginePhysics) =>
        IF ~FootSolidAt(0) THEN ReturnedMove(0)
        ELSE IF \A c \in 1..15 : FootSolidAt(0 - c) THEN scan.pc = "blocked"
        ELSE ReturnedMove(0 - Least({c \in 1..15 : ~FootSolidAt(0 - c)}))

\* js/engine/Physics.js has let a koala step onto a column whose ground is
\* 1 to 16 px below its feet without moving it down.
C33_NoStepDown ==
    /\ physicsFile = EnginePhysics
    /\ scan.pc = "moved"
    /\ ~FootSolidAt(0)
    /\ GroundBelow(16) # {}
    /\ scan.e0.y + HalfHeight(scan.e0) + Pixels(16) < Pixels(height)
    /\ entity.y = scan.e0.y

\* js/engine/Physics.js has let a koala climb more than 8 px in one step.
C33_ClimbedOverEight ==
    /\ physicsFile = EnginePhysics
    /\ scan.pc = "moved"
    /\ FootSolidAt(0)
    /\ entity.y < scan.e0.y - Pixels(8)

\* js/engine/Physics.js has moved a koala up into a column whose head pixel
\* is solid.
C33_HeadInTerrain ==
    /\ physicsFile = EnginePhysics
    /\ scan.pc = "moved"
    /\ FootSolidAt(0)
    /\ Probe(TerrainOf(imageData, width, height), entity.x, entity.y - HalfHeight(entity))

\* js/network/NetworkManager.js has stepped a koala down onto ground inside
\* the bitmap.
C33_SteppedDown ==
    /\ physicsFile = NetworkPhysics
    /\ scan.pc = "moved"
    /\ entity.y > scan.e0.y
    /\ scan.e0.y + HalfHeight(scan.e0) + Pixels(16) < Pixels(height)

(***************************************************************************)
(* Claims about the integration of a flying projectile, checked under      *)
(* SpecGame.                                                                *)
(***************************************************************************)
\* The projectile of shot id in the collection ps.
ShotIn(ps, id) == ps[CHOOSE i \in DOMAIN ps : ps[i].id = id]

\* Shot id flies through this tick untouched: it is in the loop before and
\* after, not stationary, and the tick records no contact for it.
FliesOn(id) ==
    /\ ActiveIn(projectiles, id)
    /\ ActiveIn(projectiles', id)
    /\ ~ShotIn(projectiles, id).stationary
    /\ ~ShotIn(projectiles', id).stationary
    /\ impactLog'[id] = impactLog[id]

\* This tick takes projectile p to q by adding gravity * m * dt to vy, the
\* wind force times dt to vx if windy, and the new velocity times dt to the
\* position.
IntegratedWith(p, q, m, windy) ==
    /\ q.vy = p.vy + (gravity * m * frameDt) \div TimeUnitsPerSecond
    /\ q.vx = p.vx + (IF windy THEN (wind * frameDt) \div TimeUnitsPerSecond ELSE 0)
    /\ q.x = p.x + q.vx * frameDt
    /\ q.y = p.y + q.vy * frameDt

\* The gravity multiplier a weapon profile gives: its gravity, 1 where the
\* profile has none.
ProfileGravity(weapon) == IF weapon.gravity = None THEN 1 ELSE weapon.gravity

\* Every projectile that flies on is integrated with its profile's multiplier.
IntegratesProfileGravity ==
    \A id \in Fired :
        FliesOn(id) =>
            IntegratedWith(ShotIn(projectiles, id), ShotIn(projectiles', id),
                           ProfileGravity(ShotIn(projectiles, id).weapon),
                           ShotIn(projectiles, id).weapon.affectedByWind # "false")

\* C34: for every non-stationary projectile each tick adds exactly
\* g * m * dt to vy, where m is the gravity multiplier of its weapon profile,
\* m = 0 included (a zero-gravity weapon such as the rope gets no gravity),
\* and adds wind * 100 * dt to vx only when the profile is affected by wind;
\* the position is then advanced by the updated velocity.
C34_ProfileGravity == [][IntegratesProfileGravity]_vars

\* What the code does: `weapon.gravity || 1` takes a multiplier of 0 for
\* missing, so the rope and the shotgun pellet fall like any other
\* projectile; everything else is as the claim says.
IntegratesGravityOrOne ==
    \A id \in Fired :
        FliesOn(id) =>
            IntegratedWith(ShotIn(projectiles, id), ShotIn(projectiles', id),
                           OrElse(ShotIn(projectiles, id).weapon.gravity, 1),
                           ShotIn(projectiles, id).weapon.affectedByWind # "false")

C34_GravityOrOne == [][IntegratesGravityOrOne]_vars

\* A rope, whose profile has gravity 0, flying level or upward, has gained
\* downward speed.
C34_RopeFalls ==
    \E i \in DOMAIN projectiles :
        /\ projectiles[i].type = "rope"
        /\ createWeapons.rope.gravity = 0
        /\ ~projectiles[i].stationary
        /\ projectiles[i].vx = (createWeapons.rope.speed * 20) \div 100
        /\ projectiles[i].vy = (gravity * frameDt) \div TimeUnitsPerSecond

(***************************************************************************)
(* Claims about the number of bounces, checked under SpecGame.              *)
(***************************************************************************)
\* C35: bounceCount never exceeds the projectile's maxBounces (3) in any
\* reachable state: a bouncing projectile bounces off terrain at most
\* maxBounces times, after which a further terrain contact no longer sends it
\* flying again.
C35_BouncesBounded ==
    \A id \in Fired : Latest(id).bounceCount <= Latest(id).maxBounces

\* What the code does: the bounce branch of updateProjectiles counts every
\* bounce and looks only at the speed; a projectile stops bouncing when it
\* arrives at 40 px/s or less, or detonates.  Only bouncing projectiles count.
C35_OnlyBouncersCount ==
    \A id \in Fired : Latest(id).bounceCount > 0 => Latest(id).bounces

\* A projectile has bounced a fourth time and flies on.
C35_FourthBounce ==
    \E i \in DOMAIN projectiles :
        /\ projectiles[i].bounces
        /\ projectiles[i].maxBounces = 3
        /\ projectiles[i].bounceCount = 4
        /\ ~projectiles[i].stationary
        /\ Speed2(projectiles[i]) > 0

(***************************************************************************)
(* The turns of the game: startTurn, the turn and retreat timers, the      *)
(* charge and its release, processDamage and the timeouts it sets, and     *)
(* nextTurn.  Where the shots land is not followed here: a frame either    *)
(* lets the projectile in flight fly on or detonates it on one koala, and  *)
(* a koala a blast has thrown is in the air until a later frame lands it.  *)
(* A timeout that has been set may run between any two frames.             *)
(***************************************************************************)
\* Game.turnTime and Game.retreatTime, in seconds; the teams of createTeams()
turnTime == 30
retreatTime == 5
teamCount == 2

\* The startTurn() calls of one run, the detonations of one run, the frames
\* a player lets pass in a turn before charging, and the pending timeouts of
\* one kind
MaxTurns == 2
MaxBlasts == 1
MaxIdle == 3
MaxPending == 2

\* The frames of these runs last 0.05 s, the cap of Game.update
TurnFrameDt == 2
\* The time left of the first turn where the run starts, in time units
TimeLeft == {Seconds(turnTime), 4}
\* The weapon a run fires and the ammo the teams have of it: Infinity is None
TurnWeapons == {"bazooka", "grenade"}
AmmoOf(w) == IF w = "grenade" THEN 5 ELSE None
\* What a detonation does to the koalas it reaches: the damage it deals them,
\* the full damage of these weapons or half of it, and the fall they are in
\* when the frame ends, in pixels (0: they stay on the ground); and the
\* koalas it reaches
BlastOutcomes == {[amount |-> 50, fell |-> 0], [amount |-> 25, fell |-> 0],
                  [amount |-> 50, fell |-> 600]}
BlastVictims == {{}, {1}, {4}, {4, 5, 6}}

\* this.teams[team].koalas[idx], as an index of koalas
KoalaIndex(team, idx) == team * koalaCount + idx + 1

\* Team.isAlive()
TeamIsAlive(ks, team) == \E idx \in 0..(koalaCount - 1) : ks[KoalaIndex(team, idx)].isAlive

\* getCurrentKoala()
getCurrentKoala(ks, t) == ks[KoalaIndex(t.currentTeamIndex, t.currentKoalaIndex)]

\* nextTeam(), the do-while: the number of teams it moves on
TeamsPassed(ks, startTeam) ==
    CHOOSE n \in 1..teamCount :
        /\ TeamIsAlive(ks, (startTeam + n) % teamCount) \/ n = teamCount
        /\ \A m \in 1..(n - 1) : ~TeamIsAlive(ks, (startTeam + m) % teamCount)

\* nextTeam() with the team it has cycled to
TeamChosen(t, team) ==
    [t EXCEPT !.currentTeamIndex = team, !.currentKoalaIndex = t.teamKoalaIndex[team + 1]]

\* Game.nextTeam()
nextTeam(ks, t) ==
    TeamChosen([t EXCEPT !.teamKoalaIndex[t.currentTeamIndex + 1] =
                              (t.currentKoalaIndex + 1) % koalaCount],
               (t.currentTeamIndex + TeamsPassed(ks, t.currentTeamIndex)) % teamCount)

\* selectNextKoala(): the offsets from the team's saved index that are alive
AliveOffsets(ks, t) ==
    {i \in 0..(koalaCount - 1) :
        ks[KoalaIndex(t.currentTeamIndex,
                      (t.teamKoalaIndex[t.currentTeamIndex + 1] + i) % koalaCount)].isAlive}

\* selectNextKoala() with the index it found
KoalaChosen(t, idx) ==
    [t EXCEPT !.currentKoalaIndex = idx, !.teamKoalaIndex[t.currentTeamIndex + 1] = idx]

\* selectNextKoala() with the offsets that are alive
KoalaSelected(ks, t, offsets) ==
    IF offsets = {} THEN nextTeam(ks, t)
    ELSE KoalaChosen(t, (t.teamKoalaIndex[t.currentTeamIndex + 1] + Least(offsets)) % koalaCount)

\* Game.selectNextKoala()
selectNextKoala(ks, t) == KoalaSelected(ks, t, AliveOffsets(ks, t))

\* Game.startTurn(): the turn it leaves; the phase becomes 'aiming'
startTurn(ks, t) ==
    selectNextKoala(ks, [t EXCEPT !.turnTimer = Seconds(turnTime), !.turns = @ + 1,
                                  !.timedOut = FALSE, !.idle = 0])

\* Game.nextTurn()
nextTurn(ks, t) == startTurn(ks, selectNextKoala(ks, nextTeam(ks, t)))

\* processDamage(): koala.die() for every koala with health <= 0
Buried(ks) ==
    [i \in DOMAIN ks |->
        IF ks[i].health # None /\ ks[i].health <= 0 /\ ks[i].isAlive
        THEN [ks[i] EXCEPT !.isAlive = FALSE] ELSE ks[i]]

\* The teams with a living koala
AliveTeams(ks) == {team \in 0..(teamCount - 1) : TeamIsAlive(ks, team)}

\* applyFallDamage(), for every koala
FallDamageApplied(ks) == [i \in DOMAIN ks |-> applyFallDamage(worldHeight, ks[i])]

\* The game as Game.start() leaves it, the first turn fresh or about to end
InitTurn ==
    /\ width = worldWidth
    /\ height = worldHeight
    /\ canvas = Generated
    /\ imageData = updateCollisionMask(canvas)
    /\ lastCrater = NoCrater
    /\ NoHarness
    /\ physicsFile = "none"
    /\ NoPhysics
    /\ NoLoop
    /\ NoTwin
    /\ NoGrid
    /\ NoScan
    /\ followingProjectile = 0
    /\ projectiles = <<>>
    /\ koalas = Teams
    /\ phase = "aiming"
    /\ wind \in Winds
    /\ frameDt = TurnFrameDt
    /\ impactLog = <<>>
    /\ \E left \in TimeLeft, w \in TurnWeapons :
          turn = [currentTeamIndex |-> 0, currentKoalaIndex |-> 0,
                  teamKoalaIndex |-> <<0, 0>>,
                  turnTimer |-> left, retreatTimer |-> 0,
                  isCharging |-> FALSE,
                  weapon |-> w, ammo |-> <<AmmoOf(w), AmmoOf(w)>>,
                  timeouts |-> [processDamage |-> 0, nextTurn |-> 0],
                  isGameOver |-> FALSE,
                  turns |-> 1, timedOut |-> FALSE, idle |-> 0, blasts |-> 0, shots |-> 0]

\* setTimeout(callback): one more pending callback of that kind
SetTimeout(t, callback) == [t EXCEPT !.timeouts[callback] = @ + 1]

\* updateTurnTimer(dt) and updateRetreat(dt): the phase and the turn they leave
TimerUpdated(ph, t, dt) ==
    IF ph \in {"aiming", "firing"}
    THEN IF t.turnTimer - dt <= 0
         THEN [phase |-> "damage",
               turn |-> SetTimeout([t EXCEPT !.turnTimer = 0, !.timedOut = TRUE,
                                             !.idle = @ + 1], "processDamage")]
         ELSE [phase |-> ph, turn |-> [t EXCEPT !.turnTimer = @ - dt, !.idle = @ + 1]]
    ELSE IF ph = "retreat"
    THEN IF t.retreatTimer - dt <= 0
         THEN [phase |-> "damage",
               turn |-> SetTimeout([t EXCEPT !.retreatTimer = 0], "processDamage")]
         ELSE [phase |-> ph, turn |-> [t EXCEPT !.retreatTimer = @ - dt]]
    ELSE [phase |-> ph, turn |-> t]

\* The koalas a detonation leaves: the victims take the damage and are in a
\* fall of fell px at the end of the frame
Blasted(ks, victims, amount, fell) ==
    [i \in DOMAIN ks |->
        IF i \in victims
        THEN [takeDamage(ks[i], amount) EXCEPT
                !.fallDistance = IF fell > 0 THEN Pixels(fell) ELSE @,
                !.onGround = IF fell > 0 THEN FALSE ELSE @]
        ELSE ks[i]]

\* Physics.update: the koalas in the air touch down, or none does
Landed(ks, lands) ==
    [i \in DOMAIN ks |->
        IF lands /\ ~ks[i].onGround THEN [ks[i] EXCEPT !.fallDistance = 0, !.onGround = TRUE] ELSE ks[i]]

\* updateProjectiles and Physics.update after the switch on the phase left
\* phase ph and turn t: the last projectile detonates on the victims, or none does
FrameEnds(ph, t, boom, victims, outcome, lands) ==
    IF ph = "projectile" /\ \A i \in DOMAIN projectiles : ~isBlocking(projectiles[i])
    THEN \* startRetreat(); return
         /\ ~boom
         /\ phase' = "retreat"
         /\ turn' = [t EXCEPT !.retreatTimer = Seconds(retreatTime)]
         /\ UNCHANGED projectiles
         /\ koalas' = Landed(koalas, lands)
    ELSE /\ phase' = ph
         /\ turn' = [t EXCEPT !.blasts = IF boom THEN @ + 1 ELSE @]
         /\ projectiles' = IF boom THEN SubSeq(projectiles, 1, Len(projectiles) - 1)
                           ELSE projectiles
         /\ koalas' = IF boom
                      THEN Blasted(Landed(koalas, lands), victims, outcome.amount, outcome.fell)
                      ELSE Landed(koalas, lands)

\* Game.update(dt): the switch on the phase, updateProjectiles and the physics
gameUpdate ==
    /\ ~turn.isGameOver
    /\ frameDt = TurnFrameDt
    /\ phase \in {"aiming", "firing"} => turn.idle < MaxIdle
    /\ \E boom \in BOOLEAN, victims \in BlastVictims, outcome \in BlastOutcomes,
          lands \in BOOLEAN :
        /\ boom => projectiles # <<>> /\ turn.blasts < MaxBlasts
        /\ ~boom => victims = {} /\ outcome.amount = 25
        /\ victims = {} => outcome.amount = 25
        /\ lands => \E i \in DOMAIN koalas : ~koalas[i].onGround
        /\ FrameEnds(TimerUpdated(phase, turn, frameDt).phase,
                     TimerUpdated(phase, turn, frameDt).turn, boom, victims, outcome, lands)
    /\ UNCHANGED <<wind, frameDt, impactLog, terrainVars, harnessVars, followingProjectile,
                   physicsFile, physicsVars, loopVars, twinVars, scanVars, gridVars>>

\* InputManager.handleKeyDown, Space: startCharging()
startCharging ==
    /\ phase = "aiming"
    /\ phase' = "firing"
    /\ turn' = [turn EXCEPT !.isCharging = TRUE]
    /\ UNCHANGED <<projectiles, koalas, wind, frameDt, impactLog, terrainVars, harnessVars,
                   followingProjectile, physicsFile, physicsVars, loopVars, twinVars,
                   scanVars, gridVars>>

\* The ammo of the team whose turn it is
Ammo(t) == t.ammo[t.currentTeamIndex + 1]

\* fireWeapon(angle, power): the projectile pushed for the current koala
Fired1(ks, ps, t) ==
    Append(ps,
           [createProjectile(createWeapons[t.weapon], WeaponTimer,
                             getCurrentKoala(ks, t).x + Pixels(30),
                             getCurrentKoala(ks, t).y - Pixels(10),
                             <<1, 0, 1>>, 20, FALSE)
               EXCEPT !.shooter = KoalaIndex(t.currentTeamIndex, t.currentKoalaIndex),
                      !.id = t.shots + 1])

\* InputManager.handleKeyUp, Space, while charging: releaseCharge(), which
\* calls fireWeapon(koala.aimAngle, power)
releaseCharge ==
    /\ turn.isCharging
    /\ IF Ammo(turn) # None /\ Ammo(turn) <= 0
       THEN \* out of ammo: fireWeapon returns
            /\ turn' = [turn EXCEPT !.isCharging = FALSE]
            /\ UNCHANGED <<phase, projectiles>>
       ELSE /\ phase' = "projectile"
            /\ turn' = [turn EXCEPT !.isCharging = FALSE,
                                    !.ammo[turn.currentTeamIndex + 1] =
                                        IF @ = None THEN None ELSE @ - 1,
                                    !.shots = @ + 1]
            /\ projectiles' = Fired1(koalas, projectiles, turn)
    /\ UNCHANGED <<koalas, wind, frameDt, impactLog, terrainVars, harnessVars,
                   followingProjectile, physicsFile, physicsVars, loopVars, twinVars,
                   scanVars, gridVars>>

\* InputManager.handleMouseDown, right button, while charging: cancelCharge()
cancelCharge ==
    /\ turn.isCharging
    /\ phase' = "aiming"
    /\ turn' = [turn EXCEPT !.isCharging = FALSE]
    /\ UNCHANGED <<projectiles, koalas, wind, frameDt, impactLog, terrainVars, harnessVars,
                   followingProjectile, physicsFile, physicsVars, loopVars, twinVars,
                   scanVars, gridVars>>

\* The timeout set by updateTurnTimer and updateRetreat: processDamage()
processDamageTimeout ==
    /\ turn.timeouts.processDamage > 0
    /\ koalas' = Buried(koalas)
    /\ IF Cardinality(AliveTeams(Buried(koalas))) <= 1
       THEN \* endGame()
            /\ phase' = "gameOver"
            /\ turn' = [turn EXCEPT !.timeouts.processDamage = @ - 1, !.isGameOver = TRUE]
       ELSE /\ turn.timeouts.nextTurn < MaxPending
            /\ UNCHANGED phase
            /\ turn' = SetTimeout([turn EXCEPT !.timeouts.processDamage = @ - 1], "nextTurn")
    /\ UNCHANGED <<projectiles, wind, frameDt, impactLog, terrainVars, harnessVars,
                   followingProjectile, physicsFile, physicsVars, loopVars, twinVars,
                   scanVars, gridVars>>

\* The timeout set by processDamage: applyFallDamage(); nextTurn()
nextTurnTimeout ==
    /\ turn.timeouts.nextTurn > 0
    /\ turn.turns < MaxTurns
    /\ koalas' = FallDamageApplied(koalas)
    /\ phase' = "aiming"
    /\ turn' = nextTurn(FallDamageApplied(koalas), [turn EXCEPT !.timeouts.nextTurn = @ - 1])
    /\ wind' \in Winds
    /\ UNCHANGED <<projectiles, frameDt, impactLog, terrainVars, harnessVars,
                   followingProjectile, physicsFile, physicsVars, loopVars, twinVars,
                   scanVars, gridVars>>

NextTurn ==
    \/ gameUpdate
    \/ startCharging
    \/ releaseCharge
    \/ cancelCharge
    \/ processDamageTimeout
    \/ nextTurnTimeout

SpecTurn == InitTurn /\ [][NextTurn]_vars

\* A step in which startTurn() completes
TurnStarts == turn'.turns = turn.turns + 1

\* C36: whenever startTurn completes, the koala returned by getCurrentKoala()
\* has isAlive = true and health > 0, provided some koala of the game is
\* alive, and every koala whose health has reached 0 has been marked dead
C36_TurnOfLivingKoala ==
    [][TurnStarts /\ (\E i \in DOMAIN koalas' : koalas'[i].isAlive)
          => /\ getCurrentKoala(koalas', turn').isAlive
             /\ getCurrentKoala(koalas', turn').health > 0
             /\ \A i \in DOMAIN koalas' : koalas'[i].health <= 0 => ~koalas'[i].isAlive]_vars

\* What holds of C36: the koala of the new turn has isAlive = true whenever
\* a koala of the game has
C36_TurnOfKoalaMarkedAlive ==
    [][TurnStarts /\ (\E i \in DOMAIN koalas' : koalas'[i].isAlive)
          => getCurrentKoala(koalas', turn').isAlive]_vars

\* What holds of C36: processDamage() leaves no koala with health 0 alive
C36_ProcessDamageBuries ==
    [][turn'.timeouts.processDamage < turn.timeouts.processDamage
          => \A i \in DOMAIN koalas' : koalas'[i].health <= 0 => ~koalas'[i].isAlive]_vars

\* A turn has just started for a koala with health 0 that the fall damage of
\* the nextTurn timeout has taken from it, after processDamage() had run
C36_TurnOfFallenKoala ==
    /\ phase = "aiming"
    /\ turn.turns > 1
    /\ turn.idle = 0
    /\ turn.shots = 1
    /\ getCurrentKoala(koalas, turn).isAlive
    /\ getCurrentKoala(koalas, turn).health = 0
    /\ getCurrentKoala(koalas, turn).fallDistance = 0

\* A turn has just started while a koala of the other team has health 0 and
\* is not marked dead
C36_UnburiedBystander ==
    /\ phase = "aiming"
    /\ turn.turns > 1
    /\ turn.idle = 0
    /\ getCurrentKoala(koalas, turn).health > 0
    /\ \E i \in DOMAIN koalas : koalas[i].health = 0 /\ koalas[i].isAlive

\* C37: once the turn timer has reached 0 and the phase has become 'damage',
\* no projectile is added to the active set and no ammo is spent until the
\* next startTurn, whatever the order of the input events and the pending
\* processDamage and nextTurn timeouts
C37_NoShotAfterTimeout ==
    [][turn.timedOut => /\ Len(projectiles') <= Len(projectiles)
                        /\ turn'.ammo = turn.ammo]_vars

\* What holds of C37: after the timeout a shot is fired only by releasing a
\* charge that is under way
C37_OnlyPendingChargeFires ==
    [][turn.timedOut /\ Len(projectiles') > Len(projectiles) => turn.isCharging]_vars

\* A grenade thrown after the turn timer has run out: the phase is
\* 'projectile' again, the grenade is in the active set and one of the
\* team's five grenades is spent
C37_ShotAfterTimeout ==
    /\ turn.timedOut
    /\ turn.turnTimer = 0
    /\ phase = "projectile"
    /\ Len(projectiles) = 1
    /\ turn.weapon = "grenade"
    /\ Ammo(turn) = AmmoOf("grenade") - 1

\* A new turn has started while the shot fired after the timeout of the
\* turn before is still in flight
C37_TurnStartsUnderFire ==
    /\ phase = "aiming"
    /\ turn.turns > 1
    /\ turn.idle = 0
    /\ projectiles # <<>>

(***************************************************************************)
(* js/engine/SpatialGrid.js: the cells, the map entityCells and the calls  *)
(* insert, remove, update, rebuild, clear and queryRadius, on a small      *)
(* world with two entities: a point (no width or height) and a box.  The   *)
(* cell with index i of the code is cells[i + 1] here.                     *)
(***************************************************************************)
\* The world and the cell size the grid is constructed with
GridWidth == 8
GridHeight == 4
GridCell == 4

\* The entities, with the width and height they have (0: the field is absent)
Entities == {1, 2}
SizeOf(e) == IF e = 1 THEN 0 ELSE 4
\* Where the game moves an entity to, and the queries made: coordinates
\* inside the world rectangle and outside it
GridXs == {0 - 2, 1, 5}
GridYs == {2, 5}
GridQueryXs == {1, 5}
GridQueryYs == {2}
Radii == {2, 4}

\* this.cols and this.rows: Math.ceil(worldWidth / cellSize), Math.ceil(worldHeight / cellSize)
cols == (GridWidth + GridCell - 1) \div GridCell
rows == (GridHeight + GridCell - 1) \div GridCell

\* Math.floor((centre - size / 2) / cellSize) and Math.floor((centre + size / 2) / cellSize)
FloorLow(centre, size) == (2 * centre - size) \div (2 * GridCell)
FloorHigh(centre, size) == (2 * centre + size) \div (2 * GridCell)

\* SpatialGrid.getCellsForAABB(x, y, width, height): the indices, in the
\* order of the two loops
getCellsForAABB(x, y, w, h) ==
    {row * cols + col :
        row \in Max(0, FloorLow(y, h))..Min(rows - 1, FloorHigh(y, h)),
        col \in Max(0, FloorLow(x, w))..Min(cols - 1, FloorHigh(x, w))}

\* SpatialGrid.getCellsInRadius(x, y, radius)
getCellsInRadius(x, y, radius) == getCellsForAABB(x, y, radius * 2, radius * 2)

\* dx * dx + dy * dy
DistSq(dx, dy) == dx * dx + dy * dy

\* A Map without the key e, and with the key e set to v
MapDelete(m, e) == [k \in DOMAIN m \ {e} |-> m[k]]
MapSet(m, e, v) == [k \in DOMAIN m \cup {e} |-> IF k = e THEN v ELSE m[k]]
EmptyMap == [k \in {} |-> {}]

\* SpatialGrid.clear(): the grid it leaves
clear(g) ==
    [g EXCEPT !.cells = [i \in 1..(cols * rows) |-> {}], !.entityCells = EmptyMap]

\* insert(entity) with the cells of the entity's box
Inserted(g, e, cellIndices) ==
    [g EXCEPT !.entityCells = MapSet(@, e, cellIndices),
              !.cells = [i \in DOMAIN @ |-> IF (i - 1) \in cellIndices THEN @[i] \cup {e}
                                            ELSE @[i]],
              !.moved[e] = FALSE]

\* SpatialGrid.insert(entity)
insert(g, e) ==
    Inserted(g, e, getCellsForAABB(g.entities[e].x, g.entities[e].y,
                                   g.entities[e].width, g.entities[e].height))

\* SpatialGrid.remove(entity)
remove(g, e) ==
    IF e \in DOMAIN g.entityCells
    THEN [g EXCEPT !.cells = [i \in DOMAIN @ |-> IF (i - 1) \in g.entityCells[e]
                                                 THEN @[i] \ {e} ELSE @[i]],
                   !.entityCells = MapDelete(@, e)]
    ELSE g

\* SpatialGrid.update(entity)
gridUpdate(g, e) == insert(remove(g, e), e)

\* The entities of a set as a list, in the order of their numbers
RECURSIVE ListOf(_)
ListOf(S) == IF S = {} THEN <<>> ELSE <<Least(S)>> \o ListOf(S \ {Least(S)})

\* SpatialGrid.rebuild(entities), after clear(): the inserts of the loop
RECURSIVE InsertAll(_, _)
InsertAll(g, list) ==
    IF list = <<>> THEN g ELSE InsertAll(insert(g, Head(list)), Tail(list))

\* SpatialGrid.rebuild(entities)
rebuild(g, list) == InsertAll(clear(g), list)

\* queryRadius: the entities the two loops visit, cell after cell
RECURSIVE Visited(_, _)
Visited(g, cellList) ==
    IF cellList = <<>> THEN <<>>
    ELSE ListOf(g.cells[Head(cellList) + 1]) \o Visited(g, Tail(cellList))

\* queryRadius: the loop body over the entities visited, with the set seen
RECURSIVE Collected(_, _, _, _, _, _)
Collected(g, visits, seen, x, y, radius) ==
    IF visits = <<>> THEN <<>>
    ELSE IF Head(visits) \in seen THEN Collected(g, Tail(visits), seen, x, y, radius)
    ELSE (IF DistSq(g.entities[Head(visits)].x - x, g.entities[Head(visits)].y - y)
                <= radius * radius
          THEN <<[entity |-> Head(visits),
                  distSq |-> DistSq(g.entities[Head(visits)].x - x,
                                   g.entities[Head(visits)].y - y)]>>
          ELSE <<>>)
         \o Collected(g, Tail(visits), seen \cup {Head(visits)}, x, y, radius)

\* SpatialGrid.queryRadius(x, y, radius): the list returned, each distance
\* by its square
queryRadius(g, x, y, radius) ==
    Collected(g, Visited(g, ListOf(getCellsInRadius(x, y, radius))), {}, x, y, radius)

\* No query has been made since the last change
NoQuery == [x |-> None, y |-> None, radius |-> None]

\* The grid as the constructor leaves it, the entities anywhere
InitGrid ==
    /\ width = TestWidth
    /\ height = TestHeight
    /\ canvas = BlankCanvas(TestWidth, TestHeight)
    /\ imageData = NoImageData
    /\ lastCrater = NoCrater
    /\ NoHarness
    /\ NoGame
    /\ physicsFile = "none"
    /\ NoPhysics
    /\ NoLoop
    /\ NoTwin
    /\ NoTurn
    /\ NoScan
    /\ \E xs \in [Entities -> GridXs], ys \in [Entities -> GridYs] :
          grid = clear([cells |-> <<>>, entityCells |-> EmptyMap,
                        entities |-> [e \in Entities |->
                                         [x |-> xs[e], y |-> ys[e],
                                          width |-> SizeOf(e), height |-> SizeOf(e)]],
                        moved |-> [e \in Entities |-> FALSE],
                        query |-> NoQuery, result |-> <<>>, calls |-> 0, last |-> "constructor"])

\* What the calls of the grid leave alone
nonGridVars ==
    <<terrainVars, harnessVars, gameVars, followingProjectile, physicsFile, physicsVars,
      loopVars, twinVars, scanVars, turnVars>>

\* A call that changes the grid: the query before it is forgotten
Called(g, name) ==
    [g EXCEPT !.query = NoQuery, !.result = <<>>, !.calls = @ + 1, !.last = name]

\* The calls and moves of one run
MaxGridCalls == 4

gridInsert ==
    /\ grid.calls < MaxGridCalls
    /\ \E e \in Entities : grid' = Called(insert(grid, e), "insert")
    /\ UNCHANGED nonGridVars

gridRemove ==
    /\ grid.calls < MaxGridCalls
    /\ \E e \in Entities : grid' = Called(remove(grid, e), "remove")
    /\ UNCHANGED nonGridVars

gridUpdateCall ==
    /\ grid.calls < MaxGridCalls
    /\ \E e \in Entities : grid' = Called(gridUpdate(grid, e), "update")
    /\ UNCHANGED nonGridVars

gridRebuild ==
    /\ grid.calls < MaxGridCalls
    /\ \E S \in SUBSET Entities : grid' = Called(rebuild(grid, ListOf(S)), "rebuild")
    /\ UNCHANGED nonGridVars

gridClear ==
    /\ grid.calls < MaxGridCalls
    /\ grid' = Called(clear(grid), "clear")
    /\ UNCHANGED nonGridVars

\* The game moves an entity: its x and y change, the grid is not told
moveEntity ==
    /\ grid.calls < MaxGridCalls
    /\ \E e \in Entities, x \in GridXs, y \in GridYs :
          /\ <<x, y>> # <<grid.entities[e].x, grid.entities[e].y>>
          /\ grid' = Called([grid EXCEPT !.entities[e].x = x, !.entities[e].y = y,
                                         !.moved[e] = TRUE], "move")
    /\ UNCHANGED nonGridVars

gridQuery ==
    /\ \E x \in GridQueryXs, y \in GridQueryYs, radius \in Radii :
          grid' = [grid EXCEPT !.query = [x |-> x, y |-> y, radius |-> radius],
                               !.result = queryRadius(grid, x, y, radius)]
    /\ UNCHANGED nonGridVars

NextGrid ==
    \/ gridInsert
    \/ gridRemove
    \/ gridUpdateCall
    \/ gridRebuild
    \/ gridClear
    \/ moveEntity
    \/ gridQuery

SpecGrid == InitGrid /\ [][NextGrid]_vars

\* The entity is a member of cells[i] exactly when i is in entityCells.get(entity)
Consistent(g) ==
    \A e \in Entities, i \in 0..(cols * rows - 1) :
        e \in g.cells[i + 1] <=> (e \in DOMAIN g.entityCells /\ i \in g.entityCells[e])

\* C38: after any sequence of insert, remove, update, rebuild and clear calls
\* an entity is a member of cells[i] if and only if i is in
\* entityCells.get(entity): no insert of a registered entity leaves a stale
\* membership and remove(entity) leaves the entity in no cell
C38_CellsMatchEntityCells == Consistent(grid)

\* What holds of C38: every call but the insert of an entity that is
\* registered already keeps the cells and entityCells in agreement
C38_OnlyReinsertBreaks ==
    [][Consistent(grid)
          /\ ~(grid'.last = "insert" /\ DOMAIN grid'.entityCells = DOMAIN grid.entityCells)
          => Consistent(grid')]_vars

\* What holds of C38: inserting a registered entity whose cells have not
\* changed keeps them in agreement as well
C38_ReinsertInPlaceKeeps ==
    [][Consistent(grid) /\ grid'.last = "insert" /\ grid'.entityCells = grid.entityCells
          => Consistent(grid')]_vars

\* insert() has been called for a registered entity that has moved to
\* another cell: the cell it has left still holds it
C38_StaleMembership ==
    /\ grid.last = "insert"
    /\ \E e \in DOMAIN grid.entityCells, i \in 0..(cols * rows - 1) :
          /\ e \in grid.cells[i + 1]
          /\ i \notin grid.entityCells[e]
          /\ grid.entityCells[e] # {}

\* remove(entity) has returned and the entity is still a member of a cell
C38_RemovedButPresent ==
    /\ grid.last = "remove"
    /\ \E e \in Entities \ DOMAIN grid.entityCells, i \in 0..(cols * rows - 1) :
          e \in grid.cells[i + 1]

\* The entities registered in the grid
Registered(g) == DOMAIN g.entityCells

\* The brute-force scan: the registered entities within the radius of the query
WithinRadius(g) ==
    {e \in Registered(g) :
        DistSq(g.entities[e].x - g.query.x, g.entities[e].y - g.query.y)
            <= g.query.radius * g.query.radius}

\* The entities of the list queryRadius returned
ReturnedEntities(g) == {g.result[i].entity : i \in DOMAIN g.result}

\* A position of the world rectangle
InWorld(ent) == ent.x >= 0 /\ ent.x < GridWidth /\ ent.y >= 0 /\ ent.y < GridHeight

\* The registered entities that have not moved since their last insert or update
Settled(g) == {e \in Registered(g) : ~g.moved[e]}

\* The list holds each entity once, with its distance from the query point
OnceWithDistance(g) ==
    /\ \A i, j \in DOMAIN g.result : g.result[i].entity = g.result[j].entity => i = j
    /\ \A i \in DOMAIN g.result :
          g.result[i].distSq = DistSq(g.entities[g.result[i].entity].x - g.query.x,
                                      g.entities[g.result[i].entity].y - g.query.y)

\* C39: queryRadius(x, y, r) returns exactly the registered entities within
\* distance r of (x, y), each once and with its true distance, for every
\* registered entity that has not moved since its last insert or update,
\* inside the world rectangle or outside it: the set of a brute-force scan
C39_QueryIsBruteForce ==
    grid.query # NoQuery =>
        /\ OnceWithDistance(grid)
        /\ ReturnedEntities(grid) \subseteq Registered(grid)
        /\ \A e \in Settled(grid) : e \in ReturnedEntities(grid) <=> e \in WithinRadius(grid)

\* What holds of C39: each entity returned is returned once, with its true
\* distance, and is within the radius
C39_OnceAndWithin ==
    grid.query # NoQuery =>
        /\ OnceWithDistance(grid)
        /\ \A i \in DOMAIN grid.result :
              grid.result[i].distSq <= grid.query.radius * grid.query.radius

\* What holds of C39: while cells and entityCells agree, the query and the
\* brute-force scan agree on every entity that has not moved and is inside
\* the world rectangle
C39_BruteForceInsideWorld ==
    grid.query # NoQuery /\ Consistent(grid) =>
        /\ ReturnedEntities(grid) \subseteq Registered(grid)
        /\ \A e \in Settled(grid) :
              InWorld(grid.entities[e]) =>
                  (e \in ReturnedEntities(grid) <=> e \in WithinRadius(grid))

\* A registered point left of the world, not moved since its insert and
\* within the radius of the query, that the query has not returned
C39_MissedOutsideWorld ==
    /\ grid.query # NoQuery
    /\ Consistent(grid)
    /\ \E e \in Settled(grid) :
          /\ grid.entities[e].x < 0
          /\ grid.entityCells[e] = {}
          /\ e \in WithinRadius(grid)
          /\ e \notin ReturnedEntities(grid)

\* The query has returned an entity that remove() has unregistered
C39_ReturnedUnregistered ==
    /\ grid.query # NoQuery
    /\ \E e \in ReturnedEntities(grid) : e \notin Registered(grid)

\* The query has returned a registered entity inside the world
C39_FoundInsideWorld ==
    /\ grid.query # NoQuery
    /\ Consistent(grid)
    /\ \E e \in Settled(grid) : InWorld(grid.entities[e]) /\ e \in ReturnedEntities(grid)

====
